---------------------------- MODULE Spec2Model ----------------------------
(***************************************************************************)
(* A model of src/script.js, the browser front end of the financial-firm   *)
(* name normalizer: the knowledge-base load (initialize), the name         *)
(* canonicalizer (cleanName), the standardizer (standardizeName), the CSV  *)
(* upload and parse handlers, the chunked batch run (processData and       *)
(* processChunk), the grouped display (displayResults) and the download.   *)
(*                                                                         *)
(* JavaScript strings are sequences of one-character strings, so that the  *)
(* regular expressions of cleanName act on characters.  Every JavaScript   *)
(* value is a record tagged with its type.                                 *)
(***************************************************************************)
EXTENDS Integers, Sequences, FiniteSets, Bags, TLC

VARIABLES
    hostLocale,             \* the default locale of the browser (the environment)
    kbSource,               \* what data/knowledge_base.json answers (the environment)
    initPc,                 \* where initialize() stands
    knowledgeBase,          \* let knowledgeBase
    fuse,                   \* let fuse
    parsedData,             \* let parsedData: the parse result it refers to, by its file
    headers,                \* let headers
    normalizedResults,      \* let normalizedResults
    status,                 \* statusDiv, as showStatus leaves it
    columnSelectorValue,    \* columnSelector.value
    columnSelectorShown,    \* columnSelectorContainer.style.display = 'block'
    resultsShown,           \* resultsContainer.style.display = 'block'
    resultsView,            \* resultsDiv, as displayResults leaves it
    processButtonDisabled,  \* processButton.disabled
    pendingParses,          \* the parses Papa.parse has not finished: a bag of files
    run,                    \* the closure of processData: column, processedCount, totalRows
    exported,               \* the file the step just taken made the browser download
    lastCall,               \* history: the last call of standardizeName and its outcome
    probe                   \* cleanName or standardizeName called on its own: argument, results

vars ==
    <<hostLocale, kbSource, initPc, knowledgeBase, fuse, parsedData, headers,
      normalizedResults, status, columnSelectorValue, columnSelectorShown,
      resultsShown, resultsView, processButtonDisabled, pendingParses, run,
      exported, lastCall, probe>>

(***************************************************************************)
(* JavaScript values                                                       *)
(***************************************************************************)
Str(s) == [t |-> "string", v |-> s]
Undefined == [t |-> "undefined"]
Null == [t |-> "null"]
Num(n) == [t |-> "number", n |-> n]
\* Object.prototype and the function Object, reached through the prototype
\* chain of every object that JSON.parse builds.
ObjectPrototype == [t |-> "object", ref |-> "Object.prototype"]
ObjectFunction == [t |-> "function", ref |-> "Object", name |-> <<"O", "b", "j", "e", "c", "t">>]

IsString(val) == val.t = "string"

\* ToBoolean: undefined, null, "" and 0 are falsy; objects, functions and
\* non-empty strings are truthy.
Truthy(val) ==
    CASE val.t = "undefined" -> FALSE
      [] val.t = "null" -> FALSE
      [] val.t = "string" -> val.v # <<>>
      [] val.t = "number" -> val.n # 0
      [] OTHER -> TRUE

(***************************************************************************)
(* Characters.  A string is the sequence of its UTF-16 code units.  A      *)
(* printable ASCII character other than the grave accent stands for        *)
(* itself, the escapes "\t", "\n", "\f" and "\r" for their characters, and  *)
(* any other code unit is written "U+" and its four hexadecimal digits:    *)
(* "U+00E9" is e with acute, "U+0060" the grave accent.  The alphabet of   *)
(* the model is ASCII, the Latin-1 Supplement, Latin Extended-A, the Greek *)
(* letters U+0386 to U+03CE, the white space of ECMAScript, and U+0307,    *)
(* U+1E9E, U+200B, U+20AC, U+212A and U+212B.  The case mappings and the   *)
(* collation of these characters are those of Unicode 15 (ICU 72).         *)
(***************************************************************************)
UpperChars ==
    <<"A", "B", "C", "D", "E", "F", "G", "H", "I", "J", "K", "L", "M",
      "N", "O", "P", "Q", "R", "S", "T", "U", "V", "W", "X", "Y", "Z">>
LowerChars ==
    <<"a", "b", "c", "d", "e", "f", "g", "h", "i", "j", "k", "l", "m",
      "n", "o", "p", "q", "r", "s", "t", "u", "v", "w", "x", "y", "z">>
DigitChars == {"0", "1", "2", "3", "4", "5", "6", "7", "8", "9"}

\* \w of a JavaScript regular expression: [A-Za-z0-9_].
WordChars ==
    {UpperChars[i] : i \in 1..26} \cup {LowerChars[i] : i \in 1..26}
        \cup DigitChars \cup {"_"}
IsWordChar(c) == c \in WordChars

\* U+000B (line tabulation), which no escape of a TLA+ string writes.
VerticalTab == ""

\* \s of a JavaScript regular expression: the white space and the line
\* terminators of ECMAScript, 25 code units.
IsSpaceChar(c) ==
    c \in {
      "\t", "\n", VerticalTab, "\f", "\r", " ", "U+00A0", "U+1680", "U+2000",
      "U+2001", "U+2002", "U+2003", "U+2004", "U+2005", "U+2006", "U+2007",
      "U+2008", "U+2009", "U+200A", "U+2028", "U+2029", "U+202F", "U+205F",
      "U+3000", "U+FEFF" }

\* The function a table of rows <<argument, value>> lists.
Tabulate(rows) ==
    [c \in {rows[i][1] : i \in DOMAIN rows} |->
        rows[CHOOSE i \in DOMAIN rows : rows[i][1] = c][2]]

\* The characters of the alphabet whose lower case is another string, each
\* with the code units of its lower case (Unicode Lowercase_Mapping).
LowerCaseTable ==
    Tabulate(<<
      <<"A", <<"a">>>>, <<"B", <<"b">>>>, <<"C", <<"c">>>>, <<"D", <<"d">>>>,
      <<"E", <<"e">>>>, <<"F", <<"f">>>>, <<"G", <<"g">>>>, <<"H", <<"h">>>>,
      <<"I", <<"i">>>>, <<"J", <<"j">>>>, <<"K", <<"k">>>>, <<"L", <<"l">>>>,
      <<"M", <<"m">>>>, <<"N", <<"n">>>>, <<"O", <<"o">>>>, <<"P", <<"p">>>>,
      <<"Q", <<"q">>>>, <<"R", <<"r">>>>, <<"S", <<"s">>>>, <<"T", <<"t">>>>,
      <<"U", <<"u">>>>, <<"V", <<"v">>>>, <<"W", <<"w">>>>, <<"X", <<"x">>>>,
      <<"Y", <<"y">>>>, <<"Z", <<"z">>>>, <<"U+00C0", <<"U+00E0">>>>,
      <<"U+00C1", <<"U+00E1">>>>, <<"U+00C2", <<"U+00E2">>>>,
      <<"U+00C3", <<"U+00E3">>>>, <<"U+00C4", <<"U+00E4">>>>,
      <<"U+00C5", <<"U+00E5">>>>, <<"U+00C6", <<"U+00E6">>>>,
      <<"U+00C7", <<"U+00E7">>>>, <<"U+00C8", <<"U+00E8">>>>,
      <<"U+00C9", <<"U+00E9">>>>, <<"U+00CA", <<"U+00EA">>>>,
      <<"U+00CB", <<"U+00EB">>>>, <<"U+00CC", <<"U+00EC">>>>,
      <<"U+00CD", <<"U+00ED">>>>, <<"U+00CE", <<"U+00EE">>>>,
      <<"U+00CF", <<"U+00EF">>>>, <<"U+00D0", <<"U+00F0">>>>,
      <<"U+00D1", <<"U+00F1">>>>, <<"U+00D2", <<"U+00F2">>>>,
      <<"U+00D3", <<"U+00F3">>>>, <<"U+00D4", <<"U+00F4">>>>,
      <<"U+00D5", <<"U+00F5">>>>, <<"U+00D6", <<"U+00F6">>>>,
      <<"U+00D8", <<"U+00F8">>>>, <<"U+00D9", <<"U+00F9">>>>,
      <<"U+00DA", <<"U+00FA">>>>, <<"U+00DB", <<"U+00FB">>>>,
      <<"U+00DC", <<"U+00FC">>>>, <<"U+00DD", <<"U+00FD">>>>,
      <<"U+00DE", <<"U+00FE">>>>, <<"U+0100", <<"U+0101">>>>,
      <<"U+0102", <<"U+0103">>>>, <<"U+0104", <<"U+0105">>>>,
      <<"U+0106", <<"U+0107">>>>, <<"U+0108", <<"U+0109">>>>,
      <<"U+010A", <<"U+010B">>>>, <<"U+010C", <<"U+010D">>>>,
      <<"U+010E", <<"U+010F">>>>, <<"U+0110", <<"U+0111">>>>,
      <<"U+0112", <<"U+0113">>>>, <<"U+0114", <<"U+0115">>>>,
      <<"U+0116", <<"U+0117">>>>, <<"U+0118", <<"U+0119">>>>,
      <<"U+011A", <<"U+011B">>>>, <<"U+011C", <<"U+011D">>>>,
      <<"U+011E", <<"U+011F">>>>, <<"U+0120", <<"U+0121">>>>,
      <<"U+0122", <<"U+0123">>>>, <<"U+0124", <<"U+0125">>>>,
      <<"U+0126", <<"U+0127">>>>, <<"U+0128", <<"U+0129">>>>,
      <<"U+012A", <<"U+012B">>>>, <<"U+012C", <<"U+012D">>>>,
      <<"U+012E", <<"U+012F">>>>, <<"U+0130", <<"i", "U+0307">>>>,
      <<"U+0132", <<"U+0133">>>>, <<"U+0134", <<"U+0135">>>>,
      <<"U+0136", <<"U+0137">>>>, <<"U+0139", <<"U+013A">>>>,
      <<"U+013B", <<"U+013C">>>>, <<"U+013D", <<"U+013E">>>>,
      <<"U+013F", <<"U+0140">>>>, <<"U+0141", <<"U+0142">>>>,
      <<"U+0143", <<"U+0144">>>>, <<"U+0145", <<"U+0146">>>>,
      <<"U+0147", <<"U+0148">>>>, <<"U+014A", <<"U+014B">>>>,
      <<"U+014C", <<"U+014D">>>>, <<"U+014E", <<"U+014F">>>>,
      <<"U+0150", <<"U+0151">>>>, <<"U+0152", <<"U+0153">>>>,
      <<"U+0154", <<"U+0155">>>>, <<"U+0156", <<"U+0157">>>>,
      <<"U+0158", <<"U+0159">>>>, <<"U+015A", <<"U+015B">>>>,
      <<"U+015C", <<"U+015D">>>>, <<"U+015E", <<"U+015F">>>>,
      <<"U+0160", <<"U+0161">>>>, <<"U+0162", <<"U+0163">>>>,
      <<"U+0164", <<"U+0165">>>>, <<"U+0166", <<"U+0167">>>>,
      <<"U+0168", <<"U+0169">>>>, <<"U+016A", <<"U+016B">>>>,
      <<"U+016C", <<"U+016D">>>>, <<"U+016E", <<"U+016F">>>>,
      <<"U+0170", <<"U+0171">>>>, <<"U+0172", <<"U+0173">>>>,
      <<"U+0174", <<"U+0175">>>>, <<"U+0176", <<"U+0177">>>>,
      <<"U+0178", <<"U+00FF">>>>, <<"U+0179", <<"U+017A">>>>,
      <<"U+017B", <<"U+017C">>>>, <<"U+017D", <<"U+017E">>>>,
      <<"U+0386", <<"U+03AC">>>>, <<"U+0388", <<"U+03AD">>>>,
      <<"U+0389", <<"U+03AE">>>>, <<"U+038A", <<"U+03AF">>>>,
      <<"U+038C", <<"U+03CC">>>>, <<"U+038E", <<"U+03CD">>>>,
      <<"U+038F", <<"U+03CE">>>>, <<"U+0391", <<"U+03B1">>>>,
      <<"U+0392", <<"U+03B2">>>>, <<"U+0393", <<"U+03B3">>>>,
      <<"U+0394", <<"U+03B4">>>>, <<"U+0395", <<"U+03B5">>>>,
      <<"U+0396", <<"U+03B6">>>>, <<"U+0397", <<"U+03B7">>>>,
      <<"U+0398", <<"U+03B8">>>>, <<"U+0399", <<"U+03B9">>>>,
      <<"U+039A", <<"U+03BA">>>>, <<"U+039B", <<"U+03BB">>>>,
      <<"U+039C", <<"U+03BC">>>>, <<"U+039D", <<"U+03BD">>>>,
      <<"U+039E", <<"U+03BE">>>>, <<"U+039F", <<"U+03BF">>>>,
      <<"U+03A0", <<"U+03C0">>>>, <<"U+03A1", <<"U+03C1">>>>,
      <<"U+03A3", <<"U+03C3">>>>, <<"U+03A4", <<"U+03C4">>>>,
      <<"U+03A5", <<"U+03C5">>>>, <<"U+03A6", <<"U+03C6">>>>,
      <<"U+03A7", <<"U+03C7">>>>, <<"U+03A8", <<"U+03C8">>>>,
      <<"U+03A9", <<"U+03C9">>>>, <<"U+03AA", <<"U+03CA">>>>,
      <<"U+03AB", <<"U+03CB">>>>, <<"U+1E9E", <<"U+00DF">>>>,
      <<"U+212A", <<"k">>>>, <<"U+212B", <<"U+00E5">>>> >>)

\* The lower case of the character c wherever it stands.
LowerCaseMapping(c) == IF c \in DOMAIN LowerCaseTable THEN LowerCaseTable[c] ELSE <<c>>

\* The characters of the alphabet with the Unicode property Cased, beyond
\* A-Z and a-z, and those with the property Case_Ignorable.
CasedChars ==
    {UpperChars[i] : i \in 1..26} \cup {LowerChars[i] : i \in 1..26} \cup
    {
      "U+00AA", "U+00B5", "U+00BA", "U+00C0", "U+00C1", "U+00C2", "U+00C3",
      "U+00C4", "U+00C5", "U+00C6", "U+00C7", "U+00C8", "U+00C9", "U+00CA",
      "U+00CB", "U+00CC", "U+00CD", "U+00CE", "U+00CF", "U+00D0", "U+00D1",
      "U+00D2", "U+00D3", "U+00D4", "U+00D5", "U+00D6", "U+00D8", "U+00D9",
      "U+00DA", "U+00DB", "U+00DC", "U+00DD", "U+00DE", "U+00DF", "U+00E0",
      "U+00E1", "U+00E2", "U+00E3", "U+00E4", "U+00E5", "U+00E6", "U+00E7",
      "U+00E8", "U+00E9", "U+00EA", "U+00EB", "U+00EC", "U+00ED", "U+00EE",
      "U+00EF", "U+00F0", "U+00F1", "U+00F2", "U+00F3", "U+00F4", "U+00F5",
      "U+00F6", "U+00F8", "U+00F9", "U+00FA", "U+00FB", "U+00FC", "U+00FD",
      "U+00FE", "U+00FF", "U+0100", "U+0101", "U+0102", "U+0103", "U+0104",
      "U+0105", "U+0106", "U+0107", "U+0108", "U+0109", "U+010A", "U+010B",
      "U+010C", "U+010D", "U+010E", "U+010F", "U+0110", "U+0111", "U+0112",
      "U+0113", "U+0114", "U+0115", "U+0116", "U+0117", "U+0118", "U+0119",
      "U+011A", "U+011B", "U+011C", "U+011D", "U+011E", "U+011F", "U+0120",
      "U+0121", "U+0122", "U+0123", "U+0124", "U+0125", "U+0126", "U+0127",
      "U+0128", "U+0129", "U+012A", "U+012B", "U+012C", "U+012D", "U+012E",
      "U+012F", "U+0130", "U+0131", "U+0132", "U+0133", "U+0134", "U+0135",
      "U+0136", "U+0137", "U+0138", "U+0139", "U+013A", "U+013B", "U+013C",
      "U+013D", "U+013E", "U+013F", "U+0140", "U+0141", "U+0142", "U+0143",
      "U+0144", "U+0145", "U+0146", "U+0147", "U+0148", "U+0149", "U+014A",
      "U+014B", "U+014C", "U+014D", "U+014E", "U+014F", "U+0150", "U+0151",
      "U+0152", "U+0153", "U+0154", "U+0155", "U+0156", "U+0157", "U+0158",
      "U+0159", "U+015A", "U+015B", "U+015C", "U+015D", "U+015E", "U+015F",
      "U+0160", "U+0161", "U+0162", "U+0163", "U+0164", "U+0165", "U+0166",
      "U+0167", "U+0168", "U+0169", "U+016A", "U+016B", "U+016C", "U+016D",
      "U+016E", "U+016F", "U+0170", "U+0171", "U+0172", "U+0173", "U+0174",
      "U+0175", "U+0176", "U+0177", "U+0178", "U+0179", "U+017A", "U+017B",
      "U+017C", "U+017D", "U+017E", "U+017F", "U+0386", "U+0388", "U+0389",
      "U+038A", "U+038C", "U+038E", "U+038F", "U+0390", "U+0391", "U+0392",
      "U+0393", "U+0394", "U+0395", "U+0396", "U+0397", "U+0398", "U+0399",
      "U+039A", "U+039B", "U+039C", "U+039D", "U+039E", "U+039F", "U+03A0",
      "U+03A1", "U+03A3", "U+03A4", "U+03A5", "U+03A6", "U+03A7", "U+03A8",
      "U+03A9", "U+03AA", "U+03AB", "U+03AC", "U+03AD", "U+03AE", "U+03AF",
      "U+03B0", "U+03B1", "U+03B2", "U+03B3", "U+03B4", "U+03B5", "U+03B6",
      "U+03B7", "U+03B8", "U+03B9", "U+03BA", "U+03BB", "U+03BC", "U+03BD",
      "U+03BE", "U+03BF", "U+03C0", "U+03C1", "U+03C2", "U+03C3", "U+03C4",
      "U+03C5", "U+03C6", "U+03C7", "U+03C8", "U+03C9", "U+03CA", "U+03CB",
      "U+03CC", "U+03CD", "U+03CE", "U+1E9E", "U+212A", "U+212B" }
CaseIgnorableChars ==
    {
      "'", ".", ":", "^", "U+0060", "U+00A8", "U+00AD", "U+00AF", "U+00B4",
      "U+00B7", "U+00B8", "U+0307", "U+200B", "U+FEFF" }

\* The condition Final_Sigma on the capital sigma at index i of s: the nearest
\* character before it that is not case-ignorable is cased, and the nearest
\* such character after it is not.
FinalSigma(s, i) ==
    LET before == {j \in 1..(i - 1) : s[j] \notin CaseIgnorableChars}
        after == {j \in (i + 1)..Len(s) : s[j] \notin CaseIgnorableChars}
    IN /\ \E j \in before : s[j] \in CasedChars /\ \A k \in before : k <= j
       /\ ~\E j \in after : s[j] \in CasedChars /\ \A k \in after : j <= k

\* String.prototype.toLowerCase: every character by its lower-case mapping,
\* a capital sigma that ends a word by the final small sigma.
RECURSIVE toLowerCaseFrom(_, _)
toLowerCaseFrom(s, p) ==
    IF p > Len(s) THEN <<>>
    ELSE (IF s[p] = "U+03A3" /\ FinalSigma(s, p) THEN <<"U+03C2">>
          ELSE LowerCaseMapping(s[p])) \o toLowerCaseFrom(s, p + 1)

toLowerCase(s) == toLowerCaseFrom(s, 1)

(***************************************************************************)
(* cleanName, src/script.js lines 42-50                                    *)
(***************************************************************************)
\* .replace(/[.,&()]/g, ''): delete the listed punctuation.
PunctuationChars == {".", ",", "&", "(", ")"}
removePunctuation(s) == SelectSeq(s, LAMBDA c : c \notin PunctuationChars)

\* The alternatives of the suffix expression, in the order the expression
\* lists them: inc|corp|llc|lp|co|ltd|group|financial|bank|
\* national association|na|co.
SuffixTokens ==
    << <<"i", "n", "c">>,
       <<"c", "o", "r", "p">>,
       <<"l", "l", "c">>,
       <<"l", "p">>,
       <<"c", "o">>,
       <<"l", "t", "d">>,
       <<"g", "r", "o", "u", "p">>,
       <<"f", "i", "n", "a", "n", "c", "i", "a", "l">>,
       <<"b", "a", "n", "k">>,
       <<"n", "a", "t", "i", "o", "n", "a", "l", " ",
         "a", "s", "s", "o", "c", "i", "a", "t", "i", "o", "n">>,
       <<"n", "a">>,
       <<"c", "o">> >>

\* \b before the character at index p (1 <= p <= Len(s) + 1): exactly one of
\* the characters on its two sides is a word character; outside the string
\* counts as a non-word character.
WordBoundary(s, p) ==
    LET before == p > 1 /\ p - 1 <= Len(s) /\ IsWordChar(s[p - 1])
        after == p >= 1 /\ p <= Len(s) /\ IsWordChar(s[p])
    IN before # after

\* Whether the literal tok stands in s at index p.
LiteralAt(s, p, tok) ==
    /\ p + Len(tok) - 1 <= Len(s)
    /\ \A k \in 1..Len(tok) : s[p + k - 1] = tok[k]

\* \b(tok)\b matches at index p.
SuffixMatchAt(s, p, tok) ==
    /\ WordBoundary(s, p)
    /\ LiteralAt(s, p, tok)
    /\ WordBoundary(s, p + Len(tok))

\* The alternative the suffix expression takes at index p: the first one, in
\* the order listed, that matches there; 0 when none does.
SuffixAlternativeAt(s, p) ==
    LET matching == {a \in 1..Len(SuffixTokens) : SuffixMatchAt(s, p, SuffixTokens[a])}
    IN IF matching = {} THEN 0
       ELSE CHOOSE a \in matching : \A b \in matching : a <= b

\* The number of characters the suffix expression matches at index p (0: no
\* match; no alternative is empty).
SuffixMatchLen(s, p) ==
    LET a == SuffixAlternativeAt(s, p)
    IN IF a = 0 THEN 0 ELSE Len(SuffixTokens[a])

\* .replace(/\b(...)\b/g, ''): scan left to right; a match is deleted and the
\* scan goes on after it, any other character is kept.
RECURSIVE removeSuffixesFrom(_, _)
removeSuffixesFrom(s, p) ==
    IF p > Len(s) THEN <<>>
    ELSE LET n == SuffixMatchLen(s, p)
         IN IF n > 0 THEN removeSuffixesFrom(s, p + n)
            ELSE <<s[p]>> \o removeSuffixesFrom(s, p + 1)

removeSuffixes(s) == removeSuffixesFrom(s, 1)

\* .replace(/\s+/g, ' '): every maximal run of whitespace becomes one space.
RECURSIVE collapseSpacesFrom(_, _)
collapseSpacesFrom(s, p) ==
    IF p > Len(s) THEN <<>>
    ELSE IF IsSpaceChar(s[p])
         THEN IF p > 1 /\ IsSpaceChar(s[p - 1])
              THEN collapseSpacesFrom(s, p + 1)
              ELSE <<" ">> \o collapseSpacesFrom(s, p + 1)
         ELSE <<s[p]>> \o collapseSpacesFrom(s, p + 1)

collapseSpaces(s) == collapseSpacesFrom(s, 1)

\* .trim(): drop the whitespace at both ends.
trim(s) ==
    IF \A i \in 1..Len(s) : IsSpaceChar(s[i]) THEN <<>>
    ELSE LET first == CHOOSE i \in 1..Len(s) :
                          /\ ~IsSpaceChar(s[i])
                          /\ \A j \in 1..(i - 1) : IsSpaceChar(s[j])
             last == CHOOSE i \in 1..Len(s) :
                         /\ ~IsSpaceChar(s[i])
                         /\ \A j \in (i + 1)..Len(s) : IsSpaceChar(s[j])
         IN SubSeq(s, first, last)

\* cleanName(name): '' for anything that is not a non-empty string; the
\* result is a sequence of characters.
cleanName(name) ==
    IF ~IsString(name) \/ ~Truthy(name) THEN <<>>
    ELSE trim(collapseSpaces(removeSuffixes(removePunctuation(toLowerCase(name.v)))))


(***************************************************************************)
(* Strings the model names                                                 *)
(***************************************************************************)
K_acme == <<"a", "c", "m", "e">>
K_jpmorgan_chase == <<"j", "p", "m", "o", "r", "g", "a", "n", " ", "c", "h", "a", "s", "e">>
K_zenith == <<"z", "e", "n", "i", "t", "h">>
L_AcmeCorporation == <<"A", "c", "m", "e", " ", "C", "o", "r", "p", "o", "r", "a", "t", "i", "o", "n">>
L_JPMorgan == <<"J", "P", "M", "o", "r", "g", "a", "n", " ", "C", "h", "a", "s", "e", " ", "&", " ", "C", "o", ".">>
L_UNKNOWN == <<"U", "N", "K", "N", "O", "W", "N">>
L_ZenithGroup == <<"Z", "e", "n", "i", "t", "h", " ", "G", "r", "o", "u", "p">>
\* Two labels that are ordered differently from locale to locale: Aalborg
\* Bank and, with U+00F5 for its second letter, Tonis Pank.
L_AalborgBank == <<"A", "a", "l", "b", "o", "r", "g", " ", "B", "a", "n", "k">>
L_TonisPank == <<"T", "U+00F5", "n", "i", "s", " ", "P", "a", "n", "k">>
R_AcmeBank == <<"A", "c", "m", "e", " ", "B", "a", "n", "k">>
R_ACMEBANKdot == <<"A", "C", "M", "E", " ", "B", "A", "N", "K", ".">>
R_UNKNOWNCO == <<"U", "N", "K", "N", "O", "W", "N", " ", "C", "O">>
R_AcmeeCorp == <<"A", "c", "m", "e", "e", " ", "C", "o", "r", "p">>
R_ZenitLLC == <<"Z", "e", "n", "i", "t", " ", "L", "L", "C">>
R_Zenith == <<"Z", "e", "n", "i", "t", "h">>
R_ConstructorInc == <<"C", "o", "n", "s", "t", "r", "u", "c", "t", "o", "r", " ", "I", "n", "c">>
R_CONSTRUCTORINCdot ==
    <<"C", "O", "N", "S", "T", "R", "U", "C", "T", "O", "R", " ", "I", "N", "C", ".">>
R_AcmeCo == <<"A", "c", "m", "e", " ", "C", "o">>
R_Acmee == <<"A", "c", "m", "e", "e">>
R_XyInc == <<"X", "y", " ", "I", "n", "c">>
R_ACMEdot == <<"A", "C", "M", "E", ".">>
R_BankNA == <<"B", "a", "n", "k", ",", " ", "N", ".", "A", ".">>
R_AcmeVtBank == <<"A", "c", "m", "e", VerticalTab, "B", "a", "n", "k">>
\* ACME BANK, its K the Kelvin sign and its space a no-break space.
R_ACMEBANKelvin == <<"A", "C", "M", "E", "U+00A0", "B", "A", "N", "U+212A">>

\* The sentinel label of standardizeName.
UNKNOWN == Str(L_UNKNOWN)

(***************************************************************************)
(* Objects built by JSON.parse, and property reads on them                 *)
(***************************************************************************)
\* A plain object whose own properties are the string-keyed mapping props.
Dict(props) == [t |-> "object", props |-> props]
\* An array of values.
Arr(items) == [t |-> "array", items |-> items]

\* The methods every plain object inherits from Object.prototype.
ObjectPrototypeMethods ==
    {<<"c", "o", "n", "s", "t", "r", "u", "c", "t", "o", "r">>,
     <<"_", "_", "d", "e", "f", "i", "n", "e", "G", "e", "t", "t", "e", "r", "_", "_">>,
     <<"_", "_", "d", "e", "f", "i", "n", "e", "S", "e", "t", "t", "e", "r", "_", "_">>,
     <<"h", "a", "s", "O", "w", "n", "P", "r", "o", "p", "e", "r", "t", "y">>,
     <<"_", "_", "l", "o", "o", "k", "u", "p", "G", "e", "t", "t", "e", "r", "_", "_">>,
     <<"_", "_", "l", "o", "o", "k", "u", "p", "S", "e", "t", "t", "e", "r", "_", "_">>,
     <<"i", "s", "P", "r", "o", "t", "o", "t", "y", "p", "e", "O", "f">>,
     <<"p", "r", "o", "p", "e", "r", "t", "y", "I", "s", "E", "n", "u", "m", "e", "r", "a", "b", "l", "e">>,
     <<"t", "o", "S", "t", "r", "i", "n", "g">>,
     <<"v", "a", "l", "u", "e", "O", "f">>,
     <<"t", "o", "L", "o", "c", "a", "l", "e", "S", "t", "r", "i", "n", "g">>}
ProtoKey == <<"_", "_", "p", "r", "o", "t", "o", "_", "_">>
ConstructorKey == <<"c", "o", "n", "s", "t", "r", "u", "c", "t", "o", "r">>

\* obj[key] on a plain object: the own property when there is one, else what
\* the prototype chain gives (Object.prototype), else undefined.
GetProp(obj, key) ==
    IF key \in DOMAIN obj.props THEN obj.props[key]
    ELSE IF key = ProtoKey THEN ObjectPrototype
    ELSE IF key = ConstructorKey THEN ObjectFunction
    ELSE IF key \in ObjectPrototypeMethods
         THEN [t |-> "function", ref |-> "Object.prototype method", name |-> key]
    ELSE Undefined

\* The own keys of a plain object.
OwnKeys(obj) == DOMAIN obj.props

(***************************************************************************)
(* Fuse.js, the fuzzy matcher (a library: only its calls are in the        *)
(* source).  An index holds the list it was built on and, for each query   *)
(* it is not indifferent to, the distance of the query to each entry, in   *)
(* hundredths.  A query equal to an entry is at distance 0; a query the    *)
(* table does not list is unrelated to every entry.                        *)
(***************************************************************************)
ScoreScale == 100
\* threshold: 0.4 of the options, line 30.
FuseThreshold == 40
\* fuzzyResults[0].score < 0.35, line 65.
ConfidenceThreshold == 35

FuseIndex(docs, sim) == [t |-> "Fuse", docs |-> docs, sim |-> sim]

FuseScore(f, query, i) ==
    IF f.docs.items[i] = Str(query) THEN 0
    ELSE IF query \in DOMAIN f.sim THEN f.sim[query][i]
    ELSE ScoreScale

\* fuse.search(query): the entries within the threshold, best score first,
\* equal scores in list order.
FuseSearch(f, query) ==
    LET n == Len(f.docs.items)
        hits == {i \in 1..n : FuseScore(f, query, i) <= FuseThreshold}
        before(i, j) ==
            \/ FuseScore(f, query, i) < FuseScore(f, query, j)
            \/ FuseScore(f, query, i) = FuseScore(f, query, j) /\ i < j
        at(k) == CHOOSE i \in hits : Cardinality({j \in hits : before(j, i)}) = k - 1
    IN [k \in 1..Cardinality(hits) |->
           [item |-> f.docs.items[at(k)], score |-> FuseScore(f, query, at(k)),
            refIndex |-> at(k) - 1]]

(***************************************************************************)
(* standardizeName, src/script.js lines 52-71                              *)
(***************************************************************************)
TypeError == [t |-> "error", name |-> "TypeError"]
Return(val, searched) == [kind |-> "return", value |-> val, searched |-> searched]
Throw(err, searched) == [kind |-> "throw", value |-> err, searched |-> searched]

\* fuzzyMatch with the confidence test passed at the threshold too.
fuzzyMatchInclusive(kb, fz, cleaned) ==
    IF fz.t # "Fuse" THEN Throw(TypeError, FALSE)
    ELSE IF fz.docs.t # "array" THEN Throw(TypeError, TRUE)
    ELSE LET fuzzyResults == FuseSearch(fz, cleaned)
         IN IF Len(fuzzyResults) > 0 /\ fuzzyResults[1].score <= ConfidenceThreshold
            THEN Return(GetProp(kb.variants, fuzzyResults[1].item.v), TRUE)
            ELSE Return(UNKNOWN, TRUE)

\* Lines 63-70 once the exact lookup has failed: fuse.search(cleaned), then the
\* confidence test on the first result.
fuzzyMatch(kb, fz, cleaned) ==
    \* fuse is still null: fuse.search throws before any search is made
    IF fz.t # "Fuse" THEN Throw(TypeError, FALSE)
    \* the search is called and throws inside, on a list that is no array
    ELSE IF fz.docs.t # "array" THEN Throw(TypeError, TRUE)
    ELSE LET fuzzyResults == FuseSearch(fz, cleaned)
         IN IF Len(fuzzyResults) > 0 /\ fuzzyResults[1].score < ConfidenceThreshold
            THEN Return(GetProp(kb.variants, fuzzyResults[1].item.v), TRUE)
            ELSE Return(UNKNOWN, TRUE)

\* standardizeName with the index asked first: the exact lookup is made only
\* when the index has no confident candidate.
standardizeFuzzyFirst(kb, fz, inputName) ==
    IF ~Truthy(inputName) THEN Return(UNKNOWN, FALSE)
    ELSE LET cleaned == cleanName(inputName)
         IN IF cleaned = <<>> THEN Return(UNKNOWN, FALSE)
            ELSE IF kb.t # "object" THEN Throw(TypeError, FALSE)
            ELSE IF kb.variants.t # "object" THEN Throw(TypeError, FALSE)
            ELSE IF fuzzyMatch(kb, fz, cleaned) # Return(UNKNOWN, TRUE)
                 THEN fuzzyMatch(kb, fz, cleaned)
            ELSE IF Truthy(GetProp(kb.variants, cleaned))
                 THEN Return(GetProp(kb.variants, cleaned), FALSE)
            ELSE Return(UNKNOWN, TRUE)

\* standardizeName(inputName) with the knowledge base kb and the index fz: what it
\* returns or throws, and whether it called fuse.search.
standardizeWith(kb, fz, inputName) ==
    IF ~Truthy(inputName) THEN Return(UNKNOWN, FALSE)
    ELSE LET cleaned == cleanName(inputName)
         IN IF cleaned = <<>> THEN Return(UNKNOWN, FALSE)
            \* knowledgeBase.variants[cleaned] throws on a null knowledgeBase
            \* and on an undefined knowledgeBase.variants
            ELSE IF kb.t # "object" THEN Throw(TypeError, FALSE)
            ELSE IF kb.variants.t # "object" THEN Throw(TypeError, FALSE)
            ELSE IF Truthy(GetProp(kb.variants, cleaned))
                 THEN Return(GetProp(kb.variants, cleaned), FALSE)
            ELSE fuzzyMatch(kb, fz, cleaned)

standardizeName(inputName) == standardizeWith(knowledgeBase, fuse, inputName)

(***************************************************************************)
(* The knowledge-base source and initialize(), src/script.js lines 20-39   *)
(***************************************************************************)
\* The parsed document: an object with the properties variants and
\* allKnownVariants, each of which may be missing (undefined).
KnowledgeBaseDoc(variants, allKnownVariants) ==
    [t |-> "object", variants |-> variants, allKnownVariants |-> allKnownVariants]

\* Both directions consistent: every key is in the corpus and every corpus
\* entry is a key.
KBGood ==
    KnowledgeBaseDoc(
        Dict((K_acme :> Str(L_AcmeCorporation)) @@ (K_jpmorgan_chase :> Str(L_JPMorgan))),
        Arr(<<Str(K_acme), Str(K_jpmorgan_chase)>>))
\* Every key is in the corpus, and the corpus holds one more variant.
KBExtra ==
    KnowledgeBaseDoc(
        Dict(K_acme :> Str(L_AcmeCorporation)),
        Arr(<<Str(K_zenith), Str(K_acme)>>))
\* A document whose mapping has the empty canonical key.
KBEmptyKey ==
    KnowledgeBaseDoc(
        Dict((<<>> :> Str(L_JPMorgan)) @@ (K_acme :> Str(L_AcmeCorporation))),
        Arr(<<Str(<<>>), Str(K_acme)>>))
\* Documents that are valid JSON and not a mapping plus a set.
DocNoVariants == KnowledgeBaseDoc(Undefined, Arr(<<Str(K_acme)>>))
DocNoCorpus == KnowledgeBaseDoc(Dict(K_acme :> Str(L_AcmeCorporation)), Undefined)
\* A document of six firms: two labels differ in case only, two are ordered
\* differently from locale to locale, and the firm Constructor has the
\* label 'constructor'.
L_acmecorporation ==
    <<"a", "c", "m", "e", " ", "c", "o", "r", "p", "o", "r", "a", "t", "i", "o", "n">>
KBDisplay ==
    LET aalborg == <<"a", "a", "l", "b", "o", "r", "g">>
        tonis_pank == <<"t", "U+00F5", "n", "i", "s", " ", "p", "a", "n", "k">>
    IN KnowledgeBaseDoc(
           Dict((K_acme :> Str(L_AcmeCorporation))
                @@ (L_acmecorporation :> Str(L_acmecorporation))
                @@ (K_zenith :> Str(L_ZenithGroup))
                @@ (aalborg :> Str(L_AalborgBank))
                @@ (tonis_pank :> Str(L_TonisPank))
                @@ (ConstructorKey :> Str(ConstructorKey))),
           Arr(<<Str(K_acme), Str(L_acmecorporation), Str(K_zenith), Str(aalborg),
                 Str(tonis_pank), Str(ConstructorKey)>>))

WellFormedDocs == {KBGood, KBExtra, KBEmptyKey}
MalformedDocs == {DocNoVariants, DocNoCorpus, Null}

Unreachable == [kind |-> "unreachable"]
HttpError == [kind |-> "http_error"]
BadJson == [kind |-> "bad_json"]
Document(doc) == [kind |-> "document", doc |-> doc]

Sources ==
    {Unreachable, HttpError, BadJson}
        \cup {Document(d) : d \in WellFormedDocs \cup MalformedDocs}

WellFormedSource(src) == src.kind = "document" /\ src.doc \in WellFormedDocs

\* statusDiv after showStatus(message, isError); the message is named by its
\* template and carries the values the template interpolates.
showStatus(msg, detail, n, total, isError) ==
    [msg |-> msg, detail |-> detail, n |-> n, total |-> total, isError |-> isError]

\* The distances an index built on docs may hold for the queries, drawn from
\* scores.
SimTables(docs, queries, scores) ==
    [queries -> [1..Len(docs.items) -> scores]]

\* What the runs of the main specification ask the index about, and the
\* distance it answers.
K_acmee == <<"a", "c", "m", "e", "e">>
MainQueries == {K_acmee}
MainScores == {20}

\* No file is downloaded.
NoExport == [written |-> FALSE, fields |-> <<>>, rows |-> <<>>]

uiVars ==
    <<parsedData, headers, normalizedResults, columnSelectorValue,
      columnSelectorShown, resultsShown, resultsView, processButtonDisabled,
      pendingParses, run, lastCall>>

\* catch (error): the error is shown and initialize() returns.
LoadFailed(detail) ==
    /\ status' = showStatus("Error loading knowledge base", detail, 0, 0, TRUE)
    /\ initPc' = "failed"

\* await fetch(...) rejects: the source is unreachable.
FetchFails ==
    /\ initPc = "fetch"
    /\ kbSource.kind = "unreachable"
    /\ LoadFailed("Failed to fetch")
    /\ UNCHANGED <<hostLocale, kbSource, knowledgeBase, fuse, probe>>
    /\ exported' = NoExport
    /\ UNCHANGED uiVars

\* await fetch(...) resolves with a response that is not ok: line 24 throws.
FetchRespondsNotOk ==
    /\ initPc = "fetch"
    /\ kbSource.kind = "http_error"
    /\ LoadFailed("Network response was not ok")
    /\ UNCHANGED <<hostLocale, kbSource, knowledgeBase, fuse, probe>>
    /\ exported' = NoExport
    /\ UNCHANGED uiVars

\* await fetch(...) resolves with an ok response: initialize() awaits
\* response.json().
FetchRespondsOk ==
    /\ initPc = "fetch"
    /\ kbSource.kind \in {"bad_json", "document"}
    /\ initPc' = "json"
    /\ UNCHANGED <<hostLocale, kbSource, knowledgeBase, fuse, status, probe>>
    /\ exported' = NoExport
    /\ UNCHANGED uiVars

\* await response.json() rejects: the body is not JSON.
JsonFails ==
    /\ initPc = "json"
    /\ kbSource.kind = "bad_json"
    /\ LoadFailed("Unexpected token")
    /\ UNCHANGED <<hostLocale, kbSource, knowledgeBase, fuse, probe>>
    /\ exported' = NoExport
    /\ UNCHANGED uiVars

\* await response.json() resolves: lines 25-34.  knowledgeBase is assigned
\* first; reading allKnownVariants of null throws; new Fuse(undefined, ...)
\* throws in the releases of Fuse.js that index the list in the constructor
\* and builds an index whose search throws in the others.
JsonResolves ==
    /\ initPc = "json"
    /\ kbSource.kind = "document"
    /\ knowledgeBase' = kbSource.doc
    /\ IF kbSource.doc.t # "object"
       THEN /\ LoadFailed("Cannot read properties of null")
            /\ UNCHANGED fuse
       ELSE IF kbSource.doc.allKnownVariants.t # "array"
       THEN \/ /\ LoadFailed("Cannot read properties of undefined")
               /\ UNCHANGED fuse
            \/ /\ fuse' = FuseIndex(Undefined, <<>>)
               /\ status' = showStatus("Ready to process files", "", 0, 0, FALSE)
               /\ initPc' = "done"
       ELSE /\ \E sim \in SimTables(kbSource.doc.allKnownVariants, MainQueries, MainScores) :
                   fuse' = FuseIndex(kbSource.doc.allKnownVariants, sim)
            /\ status' = showStatus("Ready to process files", "", 0, 0, FALSE)
            /\ initPc' = "done"
    /\ UNCHANGED <<hostLocale, kbSource, probe>>
    /\ exported' = NoExport
    /\ UNCHANGED uiVars

(***************************************************************************)
(* The CSV files the user may upload, as Papa.parse reads them with        *)
(* header: true: the column names and one plain object per row             *)
(***************************************************************************)
\* const chunkSize = 1000, line 124.
chunkSize == 1000
\* The rows a large file holds beyond a whole number of chunks.
ExtraRows == 1

H_Firm == <<"F", "i", "r", "m">>
H_Id == <<"I", "d">>

Min(a, b) == IF a <= b THEN a ELSE b

\* The rows of the batch of scenario 4.
SmallRows ==
    << Dict(H_Firm :> Str(R_AcmeBank)),
       Dict(H_Firm :> Str(R_ACMEBANKdot)),
       Dict(H_Firm :> Str(R_UNKNOWNCO)) >>
\* Show max 100 variants, line 192.
MaxShown == 100
\* How far beyond the display cap the longest group goes.
ExtraVariants == 2

\* The rows of a file of one column, Firm, that holds names.
NameRows(names) == [i \in 1..Len(names) |-> Dict(H_Firm :> Str(names[i]))]
\* Eight firms, among them the batch of scenario 4: one name comes twice
\* and two spellings are of one firm.
FirmRows ==
    NameRows(<<R_Zenith, R_AcmeBank, L_TonisPank, R_ACMEBANKdot, R_UNKNOWNCO,
               L_acmecorporation, R_AcmeBank, L_AalborgBank>>)
\* Two columns; one of the firms is Constructor, in two spellings.
BuilderRows ==
    [i \in 1..5 |->
        Dict((H_Id :> Str(<<"7">>))
             @@ (H_Firm :> Str(<<R_AcmeBank, R_ACMEBANKdot, R_ConstructorInc,
                                 R_CONSTRUCTORINCdot, R_UNKNOWNCO>>[i])))]
\* The i-th spelling of Acme, i from 1 to 128: each letter in either case,
\* and one of seven suffixes or none.
AcmeSpelling(i) ==
    LET upper == <<"A", "C", "M", "E">>
        suffixes == << <<>>, <<" ", "I", "n", "c">>, <<" ", "C", "o", "r", "p">>,
                       <<" ", "L", "L", "C">>, <<" ", "L", "P">>, <<" ", "C", "o">>,
                       <<" ", "L", "t", "d">>, <<" ", "G", "r", "o", "u", "p">> >>
    IN [k \in 1..4 |-> IF ((i - 1) \div (2 ^ (k - 1))) % 2 = 1
                       THEN K_acme[k] ELSE upper[k]]
           \o suffixes[((i - 1) \div 16) + 1]
\* More spellings of one firm than the display shows of a group, then the
\* first spelling again and a firm that is not known.
LongRows ==
    LET more == MaxShown + ExtraVariants
    IN NameRows([i \in 1..(more + 2) |->
                    IF i <= more THEN AcmeSpelling(i)
                    ELSE IF i = more + 1 THEN AcmeSpelling(1)
                    ELSE R_UNKNOWNCO])
\* One chunk and ExtraRows rows.
BigRowsA ==
    [i \in 1..(chunkSize + ExtraRows) |->
        Dict(H_Firm :> (IF i % 2 = 1 THEN Str(R_AcmeCo) ELSE Str(R_Acmee)))]
\* One chunk and ExtraRows + 1 rows, in two columns; a row in three has no
\* name.
BigRowsB ==
    [i \in 1..(chunkSize + ExtraRows + 1) |->
        Dict((H_Id :> Str(<<"7">>))
             @@ (H_Firm :> (IF i % 3 = 0 THEN Str(<<>>)
                            ELSE IF i % 3 = 1 THEN Str(R_XyInc)
                            ELSE Str(R_ACMEdot))))]

\* results.data of Papa.parse for each file; parsedData starts as [], which
\* no file names.
NoFile == ""
FileRows(file) ==
    CASE file = "small.csv" -> SmallRows
      [] file = "a.csv" -> BigRowsA
      [] file = "b.csv" -> BigRowsB
      [] file = "firms.csv" -> FirmRows
      [] file = "builders.csv" -> BuilderRows
      [] file = "many.csv" -> LongRows
      [] OTHER -> <<>>
\* results.meta.fields of Papa.parse for each file.
FileHeaders(file) ==
    CASE file \in {"b.csv", "builders.csv"} -> <<H_Id, H_Firm>>
      [] file \in {"small.csv", "a.csv", "firms.csv", "many.csv"}
            -> <<H_Firm>>
      [] OTHER -> <<>>

\* The array parsedData refers to.
parsedRows == FileRows(parsedData)

(***************************************************************************)
(* The file input, src/script.js lines 74-104                              *)
(***************************************************************************)
\* The parses that may be under way at once; the handler sets no limit.
MaxPending == 2

\* The change handler up to the call of Papa.parse, which reads the file
\* asynchronously.  Each call starts a parse of its own, of a file that is
\* already being read too.
FileInputChange(file) ==
    /\ BagCardinality(pendingParses) < MaxPending
    /\ status' = showStatus("Parsing", file, 0, 0, FALSE)
    /\ resultsShown' = FALSE
    /\ pendingParses' = pendingParses (+) SetToBag({file})
    /\ exported' = NoExport
    /\ UNCHANGED <<hostLocale, kbSource, initPc, knowledgeBase, fuse, parsedData, headers,
                   normalizedResults, columnSelectorValue, columnSelectorShown,
                   resultsView, processButtonDisabled, run, lastCall, probe>>

\* The complete callback, lines 84-99.  The selector is emptied and refilled,
\* which leaves its first option selected ('' when there is none).
ParseComplete(file) ==
    /\ BagIn(file, pendingParses)
    /\ pendingParses' = pendingParses (-) SetToBag({file})
    /\ parsedData' = file
    /\ headers' = FileHeaders(file)
    /\ columnSelectorValue' =
           IF Len(FileHeaders(file)) > 0 THEN FileHeaders(file)[1] ELSE <<>>
    /\ columnSelectorShown' = TRUE
    /\ status' = showStatus("Parsed rows", "", Len(FileRows(file)), 0, FALSE)
    /\ exported' = NoExport
    /\ UNCHANGED <<hostLocale, kbSource, initPc, knowledgeBase, fuse, normalizedResults,
                   resultsShown, resultsView, processButtonDisabled, run,
                   lastCall, probe>>

\* An error callback that also drops the knowledge base and its index.
ParseErrorResetting(file) ==
    /\ BagIn(file, pendingParses)
    /\ pendingParses' = pendingParses (-) SetToBag({file})
    /\ status' = showStatus("Error parsing CSV", file, 0, 0, TRUE)
    /\ exported' = NoExport
    /\ knowledgeBase' = Null
    /\ fuse' = Null
    /\ UNCHANGED <<hostLocale, kbSource, initPc, parsedData, headers,
                   normalizedResults, columnSelectorValue, columnSelectorShown,
                   resultsShown, resultsView, processButtonDisabled, run,
                   lastCall, probe>>

\* The error callback, lines 100-102: the file could not be read.
ParseError(file) ==
    /\ BagIn(file, pendingParses)
    /\ pendingParses' = pendingParses (-) SetToBag({file})
    /\ status' = showStatus("Error parsing CSV", file, 0, 0, TRUE)
    /\ exported' = NoExport
    /\ UNCHANGED <<hostLocale, kbSource, initPc, knowledgeBase, fuse, parsedData, headers,
                   normalizedResults, columnSelectorValue, columnSelectorShown,
                   resultsShown, resultsView, processButtonDisabled, run,
                   lastCall, probe>>

\* The user picks another option of the column selector.
SelectColumn(header) ==
    /\ \E i \in 1..Len(headers) : headers[i] = header
    /\ columnSelectorValue # header
    /\ columnSelectorValue' = header
    /\ exported' = NoExport
    /\ UNCHANGED <<hostLocale, kbSource, initPc, knowledgeBase, fuse, parsedData, headers,
                   normalizedResults, status, columnSelectorShown, resultsShown,
                   resultsView, processButtonDisabled, pendingParses, run,
                   lastCall, probe>>

(***************************************************************************)
(* displayResults, src/script.js lines 161-210                             *)
(***************************************************************************)
\* The decimal numeral of the natural number n.
DecimalDigits == <<"0", "1", "2", "3", "4", "5", "6", "7", "8", "9">>
RECURSIVE Decimal(_)
Decimal(n) ==
    IF n < 10 THEN <<DecimalDigits[n + 1]>>
    ELSE Decimal(n \div 10) \o <<DecimalDigits[(n % 10) + 1]>>

\* A value used as a property key, or written into a CSV field or the page,
\* is converted to a string.
RECURSIVE JsToString(_)
JsToString(val) ==
    CASE val.t = "string" -> val.v
      [] val.t = "undefined" -> <<"u", "n", "d", "e", "f", "i", "n", "e", "d">>
      [] val.t = "null" -> <<"n", "u", "l", "l">>
      [] val.t = "number" ->
            IF val.n < 0 THEN <<"-">> \o Decimal(0 - val.n) ELSE Decimal(val.n)
      [] val.t = "function" ->
            <<"f", "u", "n", "c", "t", "i", "o", "n", " ">> \o val.name
                \o <<"(", ")", " ", "{", " ", "[", "n", "a", "t", "i", "v", "e", " ",
                     "c", "o", "d", "e", "]", " ", "}">>
      [] val.t = "array" ->
            \* Array.prototype.join: null and undefined elements are empty.
            LET element(i) ==
                    IF val.items[i].t \in {"undefined", "null"} THEN <<>>
                    ELSE JsToString(val.items[i])
                joined[k \in 0..Len(val.items)] ==
                    IF k = 0 THEN <<>>
                    ELSE IF k = 1 THEN element(1)
                    ELSE joined[k - 1] \o <<",">> \o element(k)
            IN joined[Len(val.items)]
      [] OTHER ->
            <<"[", "o", "b", "j", "e", "c", "t", " ", "O", "b", "j", "e", "c", "t", "]">>

\* The default locales told apart: the root collation (en-US), the Danish
\* tailoring with upper case first and aa as a letter after z (da-DK), the
\* Estonian tailoring with z between s and t (et-EE).
DefaultLocale == "en-US"
HostLocales == {"en-US", "da-DK", "et-EE"}

\* The collation elements of every character of the alphabet in the root
\* collation, each <<primary, secondary, tertiary>>; a weight of 0 is ignored
\* on its level, and the two high bits of a tertiary weight tell the case
\* (upper 2, mixed 1, lower 0).
RootCollation ==
    <<
      <<"U+0000", <<>>>>, <<"U+0001", <<>>>>, <<"U+0002", <<>>>>,
      <<"U+0003", <<>>>>, <<"U+0004", <<>>>>, <<"U+0005", <<>>>>,
      <<"U+0006", <<>>>>, <<"U+0007", <<>>>>, <<"U+0008", <<>>>>,
      <<"\t", <<<<197632, 5, 5>>>>>>, <<"\n", <<<<198144, 5, 5>>>>>>,
      <<VerticalTab, <<<<198656, 5, 5>>>>>>, <<"\f", <<<<199168, 5, 5>>>>>>,
      <<"\r", <<<<199680, 5, 5>>>>>>, <<"U+000E", <<>>>>, <<"U+000F", <<>>>>,
      <<"U+0010", <<>>>>, <<"U+0011", <<>>>>, <<"U+0012", <<>>>>,
      <<"U+0013", <<>>>>, <<"U+0014", <<>>>>, <<"U+0015", <<>>>>,
      <<"U+0016", <<>>>>, <<"U+0017", <<>>>>, <<"U+0018", <<>>>>,
      <<"U+0019", <<>>>>, <<"U+001A", <<>>>>, <<"U+001B", <<>>>>,
      <<"U+001C", <<>>>>, <<"U+001D", <<>>>>, <<"U+001E", <<>>>>,
      <<"U+001F", <<>>>>, <<" ", <<<<262144, 5, 5>>>>>>,
      <<"!", <<<<481792, 5, 5>>>>>>, <<"\"", <<<<621568, 5, 5>>>>>>,
      <<"#", <<<<698880, 5, 5>>>>>>, <<"$", <<<<888832, 5, 5>>>>>>,
      <<"%", <<<<699392, 5, 5>>>>>>, <<"&", <<<<697344, 5, 5>>>>>>,
      <<"'", <<<<617984, 5, 5>>>>>>, <<"(", <<<<627200, 5, 5>>>>>>,
      <<")", <<<<627712, 5, 5>>>>>>, <<"*", <<<<693248, 5, 5>>>>>>,
      <<"+", <<<<817664, 5, 5>>>>>>, <<",", <<<<393216, 5, 5>>>>>>,
      <<"-", <<<<331264, 5, 5>>>>>>, <<".", <<<<524288, 5, 5>>>>>>,
      <<"/", <<<<695808, 5, 5>>>>>>, <<"0", <<<<1245184, 5, 5>>>>>>,
      <<"1", <<<<1376256, 5, 5>>>>>>, <<"2", <<<<1507328, 5, 5>>>>>>,
      <<"3", <<<<1638400, 5, 5>>>>>>, <<"4", <<<<1769472, 5, 5>>>>>>,
      <<"5", <<<<1900544, 5, 5>>>>>>, <<"6", <<<<2031616, 5, 5>>>>>>,
      <<"7", <<<<2162688, 5, 5>>>>>>, <<"8", <<<<2293760, 5, 5>>>>>>,
      <<"9", <<<<2424832, 5, 5>>>>>>, <<":", <<<<472576, 5, 5>>>>>>,
      <<";", <<<<469504, 5, 5>>>>>>, <<"<", <<<<819712, 5, 5>>>>>>,
      <<"=", <<<<820224, 5, 5>>>>>>, <<">", <<<<820736, 5, 5>>>>>>,
      <<"?", <<<<484352, 5, 5>>>>>>, <<"@", <<<<692736, 5, 5>>>>>>,
      <<"A", <<<<2752512, 5, 156>>>>>>, <<"B", <<<<2883584, 5, 156>>>>>>,
      <<"C", <<<<3014656, 5, 156>>>>>>, <<"D", <<<<3145728, 5, 156>>>>>>,
      <<"E", <<<<3276800, 5, 156>>>>>>, <<"F", <<<<3407872, 5, 156>>>>>>,
      <<"G", <<<<3538944, 5, 156>>>>>>, <<"H", <<<<3670016, 5, 156>>>>>>,
      <<"I", <<<<3801088, 5, 156>>>>>>, <<"J", <<<<3932160, 5, 156>>>>>>,
      <<"K", <<<<4063232, 5, 156>>>>>>, <<"L", <<<<4194304, 5, 156>>>>>>,
      <<"M", <<<<4325376, 5, 156>>>>>>, <<"N", <<<<4456448, 5, 156>>>>>>,
      <<"O", <<<<4587520, 5, 156>>>>>>, <<"P", <<<<4718592, 5, 156>>>>>>,
      <<"Q", <<<<4849664, 5, 156>>>>>>, <<"R", <<<<4980736, 5, 156>>>>>>,
      <<"S", <<<<5111808, 5, 156>>>>>>, <<"T", <<<<5242880, 5, 156>>>>>>,
      <<"U", <<<<5373952, 5, 156>>>>>>, <<"V", <<<<5505024, 5, 156>>>>>>,
      <<"W", <<<<5636096, 5, 160>>>>>>, <<"X", <<<<5767168, 5, 156>>>>>>,
      <<"Y", <<<<5898240, 5, 156>>>>>>, <<"Z", <<<<6029312, 5, 156>>>>>>,
      <<"[", <<<<628224, 5, 5>>>>>>, <<"\\", <<<<696320, 5, 5>>>>>>,
      <<"]", <<<<628736, 5, 5>>>>>>, <<"^", <<<<788992, 5, 5>>>>>>,
      <<"_", <<<<330240, 5, 5>>>>>>, <<"U+0060", <<<<787456, 5, 5>>>>>>,
      <<"a", <<<<2752512, 5, 5>>>>>>, <<"b", <<<<2883584, 5, 5>>>>>>,
      <<"c", <<<<3014656, 5, 5>>>>>>, <<"d", <<<<3145728, 5, 5>>>>>>,
      <<"e", <<<<3276800, 5, 5>>>>>>, <<"f", <<<<3407872, 5, 5>>>>>>,
      <<"g", <<<<3538944, 5, 5>>>>>>, <<"h", <<<<3670016, 5, 5>>>>>>,
      <<"i", <<<<3801088, 5, 5>>>>>>, <<"j", <<<<3932160, 5, 5>>>>>>,
      <<"k", <<<<4063232, 5, 5>>>>>>, <<"l", <<<<4194304, 5, 5>>>>>>,
      <<"m", <<<<4325376, 5, 5>>>>>>, <<"n", <<<<4456448, 5, 5>>>>>>,
      <<"o", <<<<4587520, 5, 5>>>>>>, <<"p", <<<<4718592, 5, 5>>>>>>,
      <<"q", <<<<4849664, 5, 5>>>>>>, <<"r", <<<<4980736, 5, 5>>>>>>,
      <<"s", <<<<5111808, 5, 5>>>>>>, <<"t", <<<<5242880, 5, 5>>>>>>,
      <<"u", <<<<5373952, 5, 5>>>>>>, <<"v", <<<<5505024, 5, 5>>>>>>,
      <<"w", <<<<5636096, 5, 5>>>>>>, <<"x", <<<<5767168, 5, 5>>>>>>,
      <<"y", <<<<5898240, 5, 5>>>>>>, <<"z", <<<<6029312, 5, 5>>>>>>,
      <<"{", <<<<629248, 5, 5>>>>>>, <<"|", <<<<821760, 5, 5>>>>>>,
      <<"}", <<<<629760, 5, 5>>>>>>, <<"~", <<<<822784, 5, 5>>>>>>,
      <<"U+007F", <<>>>>, <<"U+0080", <<>>>>, <<"U+0081", <<>>>>,
      <<"U+0082", <<>>>>, <<"U+0083", <<>>>>, <<"U+0084", <<>>>>,
      <<"U+0085", <<<<200192, 5, 5>>>>>>, <<"U+0086", <<>>>>,
      <<"U+0087", <<>>>>, <<"U+0088", <<>>>>, <<"U+0089", <<>>>>,
      <<"U+008A", <<>>>>, <<"U+008B", <<>>>>, <<"U+008C", <<>>>>,
      <<"U+008D", <<>>>>, <<"U+008E", <<>>>>, <<"U+008F", <<>>>>,
      <<"U+0090", <<>>>>, <<"U+0091", <<>>>>, <<"U+0092", <<>>>>,
      <<"U+0093", <<>>>>, <<"U+0094", <<>>>>, <<"U+0095", <<>>>>,
      <<"U+0096", <<>>>>, <<"U+0097", <<>>>>, <<"U+0098", <<>>>>,
      <<"U+0099", <<>>>>, <<"U+009A", <<>>>>, <<"U+009B", <<>>>>,
      <<"U+009C", <<>>>>, <<"U+009D", <<>>>>, <<"U+009E", <<>>>>,
      <<"U+009F", <<>>>>, <<"U+00A0", <<<<262144, 5, 40>>>>>>,
      <<"U+00A1", <<<<482304, 5, 5>>>>>>, <<"U+00A2", <<<<888320, 5, 5>>>>>>,
      <<"U+00A3", <<<<889344, 5, 5>>>>>>, <<"U+00A4", <<<<887808, 5, 5>>>>>>,
      <<"U+00A5", <<<<889856, 5, 5>>>>>>, <<"U+00A6", <<<<822272, 5, 5>>>>>>,
      <<"U+00A7", <<<<689664, 5, 5>>>>>>, <<"U+00A8", <<<<790528, 5, 5>>>>>>,
      <<"U+00A9", <<<<809984, 5, 5>>>>>>,
      <<"U+00AA", <<<<2752512, 5, 43>>>>>>,
      <<"U+00AB", <<<<626176, 5, 5>>>>>>, <<"U+00AC", <<<<821248, 5, 5>>>>>>,
      <<"U+00AD", <<>>>>, <<"U+00AE", <<<<811008, 5, 5>>>>>>,
      <<"U+00AF", <<<<789504, 5, 5>>>>>>, <<"U+00B0", <<<<807680, 5, 5>>>>>>,
      <<"U+00B1", <<<<818176, 5, 5>>>>>>,
      <<"U+00B2", <<<<1507328, 5, 36>>>>>>,
      <<"U+00B3", <<<<1638400, 5, 36>>>>>>,
      <<"U+00B4", <<<<787968, 5, 5>>>>>>,
      <<"U+00B5", <<<<6302208, 5, 16>>>>>>,
      <<"U+00B6", <<<<690688, 5, 5>>>>>>, <<"U+00B7", <<<<596480, 5, 5>>>>>>,
      <<"U+00B8", <<<<791552, 5, 5>>>>>>,
      <<"U+00B9", <<<<1376256, 5, 36>>>>>>,
      <<"U+00BA", <<<<4587520, 5, 43>>>>>>,
      <<"U+00BB", <<<<626688, 5, 5>>>>>>,
      <<"U+00BC", <<<<1376256, 5, 51>>, <<824832, 5, 32>>, <<1769472, 5, 51>>>>>>,
      <<"U+00BD", <<<<1376256, 5, 51>>, <<824832, 5, 32>>, <<1507328, 5, 51>>>>>>,
      <<"U+00BE", <<<<1638400, 5, 51>>, <<824832, 5, 32>>, <<1769472, 5, 51>>>>>>,
      <<"U+00BF", <<<<484864, 5, 5>>>>>>,
      <<"U+00C0", <<<<2752512, 5, 156>>, <<0, 138, 5>>>>>>,
      <<"U+00C1", <<<<2752512, 5, 156>>, <<0, 136, 5>>>>>>,
      <<"U+00C2", <<<<2752512, 5, 156>>, <<0, 142, 5>>>>>>,
      <<"U+00C3", <<<<2752512, 5, 156>>, <<0, 154, 5>>>>>>,
      <<"U+00C4", <<<<2752512, 5, 156>>, <<0, 150, 5>>>>>>,
      <<"U+00C5", <<<<2752512, 5, 156>>, <<0, 146, 5>>>>>>,
      <<"U+00C6", <<<<2752512, 112, 160>>, <<3276800, 5, 162>>>>>>,
      <<"U+00C7", <<<<3014656, 5, 156>>, <<0, 160, 5>>>>>>,
      <<"U+00C8", <<<<3276800, 5, 156>>, <<0, 138, 5>>>>>>,
      <<"U+00C9", <<<<3276800, 5, 156>>, <<0, 136, 5>>>>>>,
      <<"U+00CA", <<<<3276800, 5, 156>>, <<0, 142, 5>>>>>>,
      <<"U+00CB", <<<<3276800, 5, 156>>, <<0, 150, 5>>>>>>,
      <<"U+00CC", <<<<3801088, 5, 156>>, <<0, 138, 5>>>>>>,
      <<"U+00CD", <<<<3801088, 5, 156>>, <<0, 136, 5>>>>>>,
      <<"U+00CE", <<<<3801088, 5, 156>>, <<0, 142, 5>>>>>>,
      <<"U+00CF", <<<<3801088, 5, 156>>, <<0, 150, 5>>>>>>,
      <<"U+00D0", <<<<3145728, 112, 160>>>>>>,
      <<"U+00D1", <<<<4456448, 5, 156>>, <<0, 154, 5>>>>>>,
      <<"U+00D2", <<<<4587520, 5, 156>>, <<0, 138, 5>>>>>>,
      <<"U+00D3", <<<<4587520, 5, 156>>, <<0, 136, 5>>>>>>,
      <<"U+00D4", <<<<4587520, 5, 156>>, <<0, 142, 5>>>>>>,
      <<"U+00D5", <<<<4587520, 5, 156>>, <<0, 154, 5>>>>>>,
      <<"U+00D6", <<<<4587520, 5, 156>>, <<0, 150, 5>>>>>>,
      <<"U+00D7", <<<<819200, 5, 5>>>>>>,
      <<"U+00D8", <<<<4587520, 5, 156>>, <<0, 158, 5>>>>>>,
      <<"U+00D9", <<<<5373952, 5, 156>>, <<0, 138, 5>>>>>>,
      <<"U+00DA", <<<<5373952, 5, 156>>, <<0, 136, 5>>>>>>,
      <<"U+00DB", <<<<5373952, 5, 156>>, <<0, 142, 5>>>>>>,
      <<"U+00DC", <<<<5373952, 5, 156>>, <<0, 150, 5>>>>>>,
      <<"U+00DD", <<<<5898240, 5, 156>>, <<0, 136, 5>>>>>>,
      <<"U+00DE", <<<<6105088, 5, 160>>>>>>,
      <<"U+00DF", <<<<5111808, 112, 5>>, <<5111808, 5, 19>>>>>>,
      <<"U+00E0", <<<<2752512, 5, 5>>, <<0, 138, 5>>>>>>,
      <<"U+00E1", <<<<2752512, 5, 5>>, <<0, 136, 5>>>>>>,
      <<"U+00E2", <<<<2752512, 5, 5>>, <<0, 142, 5>>>>>>,
      <<"U+00E3", <<<<2752512, 5, 5>>, <<0, 154, 5>>>>>>,
      <<"U+00E4", <<<<2752512, 5, 5>>, <<0, 150, 5>>>>>>,
      <<"U+00E5", <<<<2752512, 5, 5>>, <<0, 146, 5>>>>>>,
      <<"U+00E6", <<<<2752512, 112, 5>>, <<3276800, 5, 19>>>>>>,
      <<"U+00E7", <<<<3014656, 5, 5>>, <<0, 160, 5>>>>>>,
      <<"U+00E8", <<<<3276800, 5, 5>>, <<0, 138, 5>>>>>>,
      <<"U+00E9", <<<<3276800, 5, 5>>, <<0, 136, 5>>>>>>,
      <<"U+00EA", <<<<3276800, 5, 5>>, <<0, 142, 5>>>>>>,
      <<"U+00EB", <<<<3276800, 5, 5>>, <<0, 150, 5>>>>>>,
      <<"U+00EC", <<<<3801088, 5, 5>>, <<0, 138, 5>>>>>>,
      <<"U+00ED", <<<<3801088, 5, 5>>, <<0, 136, 5>>>>>>,
      <<"U+00EE", <<<<3801088, 5, 5>>, <<0, 142, 5>>>>>>,
      <<"U+00EF", <<<<3801088, 5, 5>>, <<0, 150, 5>>>>>>,
      <<"U+00F0", <<<<3145728, 112, 5>>>>>>,
      <<"U+00F1", <<<<4456448, 5, 5>>, <<0, 154, 5>>>>>>,
      <<"U+00F2", <<<<4587520, 5, 5>>, <<0, 138, 5>>>>>>,
      <<"U+00F3", <<<<4587520, 5, 5>>, <<0, 136, 5>>>>>>,
      <<"U+00F4", <<<<4587520, 5, 5>>, <<0, 142, 5>>>>>>,
      <<"U+00F5", <<<<4587520, 5, 5>>, <<0, 154, 5>>>>>>,
      <<"U+00F6", <<<<4587520, 5, 5>>, <<0, 150, 5>>>>>>,
      <<"U+00F7", <<<<818688, 5, 5>>>>>>,
      <<"U+00F8", <<<<4587520, 5, 5>>, <<0, 158, 5>>>>>>,
      <<"U+00F9", <<<<5373952, 5, 5>>, <<0, 138, 5>>>>>>,
      <<"U+00FA", <<<<5373952, 5, 5>>, <<0, 136, 5>>>>>>,
      <<"U+00FB", <<<<5373952, 5, 5>>, <<0, 142, 5>>>>>>,
      <<"U+00FC", <<<<5373952, 5, 5>>, <<0, 150, 5>>>>>>,
      <<"U+00FD", <<<<5898240, 5, 5>>, <<0, 136, 5>>>>>>,
      <<"U+00FE", <<<<6105088, 5, 5>>>>>>,
      <<"U+00FF", <<<<5898240, 5, 5>>, <<0, 150, 5>>>>>>,
      <<"U+0100", <<<<2752512, 5, 156>>, <<0, 164, 5>>>>>>,
      <<"U+0101", <<<<2752512, 5, 5>>, <<0, 164, 5>>>>>>,
      <<"U+0102", <<<<2752512, 5, 156>>, <<0, 140, 5>>>>>>,
      <<"U+0103", <<<<2752512, 5, 5>>, <<0, 140, 5>>>>>>,
      <<"U+0104", <<<<2752512, 5, 156>>, <<0, 162, 5>>>>>>,
      <<"U+0105", <<<<2752512, 5, 5>>, <<0, 162, 5>>>>>>,
      <<"U+0106", <<<<3014656, 5, 156>>, <<0, 136, 5>>>>>>,
      <<"U+0107", <<<<3014656, 5, 5>>, <<0, 136, 5>>>>>>,
      <<"U+0108", <<<<3014656, 5, 156>>, <<0, 142, 5>>>>>>,
      <<"U+0109", <<<<3014656, 5, 5>>, <<0, 142, 5>>>>>>,
      <<"U+010A", <<<<3014656, 5, 156>>, <<0, 156, 5>>>>>>,
      <<"U+010B", <<<<3014656, 5, 5>>, <<0, 156, 5>>>>>>,
      <<"U+010C", <<<<3014656, 5, 156>>, <<0, 144, 5>>>>>>,
      <<"U+010D", <<<<3014656, 5, 5>>, <<0, 144, 5>>>>>>,
      <<"U+010E", <<<<3145728, 5, 156>>, <<0, 144, 5>>>>>>,
      <<"U+010F", <<<<3145728, 5, 5>>, <<0, 144, 5>>>>>>,
      <<"U+0110", <<<<3145728, 5, 156>>, <<0, 178, 5>>>>>>,
      <<"U+0111", <<<<3145728, 5, 5>>, <<0, 178, 5>>>>>>,
      <<"U+0112", <<<<3276800, 5, 156>>, <<0, 164, 5>>>>>>,
      <<"U+0113", <<<<3276800, 5, 5>>, <<0, 164, 5>>>>>>,
      <<"U+0114", <<<<3276800, 5, 156>>, <<0, 140, 5>>>>>>,
      <<"U+0115", <<<<3276800, 5, 5>>, <<0, 140, 5>>>>>>,
      <<"U+0116", <<<<3276800, 5, 156>>, <<0, 156, 5>>>>>>,
      <<"U+0117", <<<<3276800, 5, 5>>, <<0, 156, 5>>>>>>,
      <<"U+0118", <<<<3276800, 5, 156>>, <<0, 162, 5>>>>>>,
      <<"U+0119", <<<<3276800, 5, 5>>, <<0, 162, 5>>>>>>,
      <<"U+011A", <<<<3276800, 5, 156>>, <<0, 144, 5>>>>>>,
      <<"U+011B", <<<<3276800, 5, 5>>, <<0, 144, 5>>>>>>,
      <<"U+011C", <<<<3538944, 5, 156>>, <<0, 142, 5>>>>>>,
      <<"U+011D", <<<<3538944, 5, 5>>, <<0, 142, 5>>>>>>,
      <<"U+011E", <<<<3538944, 5, 156>>, <<0, 140, 5>>>>>>,
      <<"U+011F", <<<<3538944, 5, 5>>, <<0, 140, 5>>>>>>,
      <<"U+0120", <<<<3538944, 5, 156>>, <<0, 156, 5>>>>>>,
      <<"U+0121", <<<<3538944, 5, 5>>, <<0, 156, 5>>>>>>,
      <<"U+0122", <<<<3538944, 5, 156>>, <<0, 160, 5>>>>>>,
      <<"U+0123", <<<<3538944, 5, 5>>, <<0, 160, 5>>>>>>,
      <<"U+0124", <<<<3670016, 5, 156>>, <<0, 142, 5>>>>>>,
      <<"U+0125", <<<<3670016, 5, 5>>, <<0, 142, 5>>>>>>,
      <<"U+0126", <<<<3670016, 5, 156>>, <<0, 178, 5>>>>>>,
      <<"U+0127", <<<<3670016, 5, 5>>, <<0, 178, 5>>>>>>,
      <<"U+0128", <<<<3801088, 5, 156>>, <<0, 154, 5>>>>>>,
      <<"U+0129", <<<<3801088, 5, 5>>, <<0, 154, 5>>>>>>,
      <<"U+012A", <<<<3801088, 5, 156>>, <<0, 164, 5>>>>>>,
      <<"U+012B", <<<<3801088, 5, 5>>, <<0, 164, 5>>>>>>,
      <<"U+012C", <<<<3801088, 5, 156>>, <<0, 140, 5>>>>>>,
      <<"U+012D", <<<<3801088, 5, 5>>, <<0, 140, 5>>>>>>,
      <<"U+012E", <<<<3801088, 5, 156>>, <<0, 162, 5>>>>>>,
      <<"U+012F", <<<<3801088, 5, 5>>, <<0, 162, 5>>>>>>,
      <<"U+0130", <<<<3801088, 5, 156>>, <<0, 156, 5>>>>>>,
      <<"U+0131", <<<<3868160, 5, 5>>>>>>,
      <<"U+0132", <<<<3801088, 5, 162>>, <<3932160, 5, 162>>>>>>,
      <<"U+0133", <<<<3801088, 5, 19>>, <<3932160, 5, 19>>>>>>,
      <<"U+0134", <<<<3932160, 5, 156>>, <<0, 142, 5>>>>>>,
      <<"U+0135", <<<<3932160, 5, 5>>, <<0, 142, 5>>>>>>,
      <<"U+0136", <<<<4063232, 5, 156>>, <<0, 160, 5>>>>>>,
      <<"U+0137", <<<<4063232, 5, 5>>, <<0, 160, 5>>>>>>,
      <<"U+0138", <<<<4919296, 5, 5>>>>>>,
      <<"U+0139", <<<<4194304, 5, 156>>, <<0, 136, 5>>>>>>,
      <<"U+013A", <<<<4194304, 5, 5>>, <<0, 136, 5>>>>>>,
      <<"U+013B", <<<<4194304, 5, 156>>, <<0, 160, 5>>>>>>,
      <<"U+013C", <<<<4194304, 5, 5>>, <<0, 160, 5>>>>>>,
      <<"U+013D", <<<<4194304, 5, 156>>, <<0, 144, 5>>>>>>,
      <<"U+013E", <<<<4194304, 5, 5>>, <<0, 144, 5>>>>>>,
      <<"U+013F", <<<<4194304, 5, 156>>, <<0, 251, 5>>, <<0, 148, 192>>>>>>,
      <<"U+0140", <<<<4194304, 5, 5>>, <<0, 251, 5>>, <<0, 148, 192>>>>>>,
      <<"U+0141", <<<<4194304, 5, 156>>, <<0, 178, 5>>>>>>,
      <<"U+0142", <<<<4194304, 5, 5>>, <<0, 178, 5>>>>>>,
      <<"U+0143", <<<<4456448, 5, 156>>, <<0, 136, 5>>>>>>,
      <<"U+0144", <<<<4456448, 5, 5>>, <<0, 136, 5>>>>>>,
      <<"U+0145", <<<<4456448, 5, 156>>, <<0, 160, 5>>>>>>,
      <<"U+0146", <<<<4456448, 5, 5>>, <<0, 160, 5>>>>>>,
      <<"U+0147", <<<<4456448, 5, 156>>, <<0, 144, 5>>>>>>,
      <<"U+0148", <<<<4456448, 5, 5>>, <<0, 144, 5>>>>>>,
      <<"U+0149", <<<<6117376, 5, 32>>, <<4456448, 5, 19>>>>>>,
      <<"U+014A", <<<<4530176, 5, 158>>>>>>,
      <<"U+014B", <<<<4530176, 5, 5>>>>>>,
      <<"U+014C", <<<<4587520, 5, 156>>, <<0, 164, 5>>>>>>,
      <<"U+014D", <<<<4587520, 5, 5>>, <<0, 164, 5>>>>>>,
      <<"U+014E", <<<<4587520, 5, 156>>, <<0, 140, 5>>>>>>,
      <<"U+014F", <<<<4587520, 5, 5>>, <<0, 140, 5>>>>>>,
      <<"U+0150", <<<<4587520, 5, 156>>, <<0, 152, 5>>>>>>,
      <<"U+0151", <<<<4587520, 5, 5>>, <<0, 152, 5>>>>>>,
      <<"U+0152", <<<<4587520, 112, 160>>, <<3276800, 5, 162>>>>>>,
      <<"U+0153", <<<<4587520, 112, 5>>, <<3276800, 5, 19>>>>>>,
      <<"U+0154", <<<<4980736, 5, 156>>, <<0, 136, 5>>>>>>,
      <<"U+0155", <<<<4980736, 5, 5>>, <<0, 136, 5>>>>>>,
      <<"U+0156", <<<<4980736, 5, 156>>, <<0, 160, 5>>>>>>,
      <<"U+0157", <<<<4980736, 5, 5>>, <<0, 160, 5>>>>>>,
      <<"U+0158", <<<<4980736, 5, 156>>, <<0, 144, 5>>>>>>,
      <<"U+0159", <<<<4980736, 5, 5>>, <<0, 144, 5>>>>>>,
      <<"U+015A", <<<<5111808, 5, 156>>, <<0, 136, 5>>>>>>,
      <<"U+015B", <<<<5111808, 5, 5>>, <<0, 136, 5>>>>>>,
      <<"U+015C", <<<<5111808, 5, 156>>, <<0, 142, 5>>>>>>,
      <<"U+015D", <<<<5111808, 5, 5>>, <<0, 142, 5>>>>>>,
      <<"U+015E", <<<<5111808, 5, 156>>, <<0, 160, 5>>>>>>,
      <<"U+015F", <<<<5111808, 5, 5>>, <<0, 160, 5>>>>>>,
      <<"U+0160", <<<<5111808, 5, 156>>, <<0, 144, 5>>>>>>,
      <<"U+0161", <<<<5111808, 5, 5>>, <<0, 144, 5>>>>>>,
      <<"U+0162", <<<<5242880, 5, 156>>, <<0, 160, 5>>>>>>,
      <<"U+0163", <<<<5242880, 5, 5>>, <<0, 160, 5>>>>>>,
      <<"U+0164", <<<<5242880, 5, 156>>, <<0, 144, 5>>>>>>,
      <<"U+0165", <<<<5242880, 5, 5>>, <<0, 144, 5>>>>>>,
      <<"U+0166", <<<<5310464, 5, 160>>>>>>,
      <<"U+0167", <<<<5310464, 5, 5>>>>>>,
      <<"U+0168", <<<<5373952, 5, 156>>, <<0, 154, 5>>>>>>,
      <<"U+0169", <<<<5373952, 5, 5>>, <<0, 154, 5>>>>>>,
      <<"U+016A", <<<<5373952, 5, 156>>, <<0, 164, 5>>>>>>,
      <<"U+016B", <<<<5373952, 5, 5>>, <<0, 164, 5>>>>>>,
      <<"U+016C", <<<<5373952, 5, 156>>, <<0, 140, 5>>>>>>,
      <<"U+016D", <<<<5373952, 5, 5>>, <<0, 140, 5>>>>>>,
      <<"U+016E", <<<<5373952, 5, 156>>, <<0, 146, 5>>>>>>,
      <<"U+016F", <<<<5373952, 5, 5>>, <<0, 146, 5>>>>>>,
      <<"U+0170", <<<<5373952, 5, 156>>, <<0, 152, 5>>>>>>,
      <<"U+0171", <<<<5373952, 5, 5>>, <<0, 152, 5>>>>>>,
      <<"U+0172", <<<<5373952, 5, 156>>, <<0, 162, 5>>>>>>,
      <<"U+0173", <<<<5373952, 5, 5>>, <<0, 162, 5>>>>>>,
      <<"U+0174", <<<<5636096, 5, 160>>, <<0, 142, 5>>>>>>,
      <<"U+0175", <<<<5636096, 5, 5>>, <<0, 142, 5>>>>>>,
      <<"U+0176", <<<<5898240, 5, 156>>, <<0, 142, 5>>>>>>,
      <<"U+0177", <<<<5898240, 5, 5>>, <<0, 142, 5>>>>>>,
      <<"U+0178", <<<<5898240, 5, 156>>, <<0, 150, 5>>>>>>,
      <<"U+0179", <<<<6029312, 5, 156>>, <<0, 136, 5>>>>>>,
      <<"U+017A", <<<<6029312, 5, 5>>, <<0, 136, 5>>>>>>,
      <<"U+017B", <<<<6029312, 5, 156>>, <<0, 156, 5>>>>>>,
      <<"U+017C", <<<<6029312, 5, 5>>, <<0, 156, 5>>>>>>,
      <<"U+017D", <<<<6029312, 5, 156>>, <<0, 144, 5>>>>>>,
      <<"U+017E", <<<<6029312, 5, 5>>, <<0, 144, 5>>>>>>,
      <<"U+017F", <<<<5111808, 116, 5>>>>>>, <<"U+0307", <<<<0, 156, 5>>>>>>,
      <<"U+0386", <<<<6292992, 5, 166>>, <<0, 136, 5>>>>>>,
      <<"U+0388", <<<<6295552, 5, 166>>, <<0, 136, 5>>>>>>,
      <<"U+0389", <<<<6298624, 5, 158>>, <<0, 136, 5>>>>>>,
      <<"U+038A", <<<<6299648, 5, 166>>, <<0, 136, 5>>>>>>,
      <<"U+038C", <<<<6303744, 5, 158>>, <<0, 136, 5>>>>>>,
      <<"U+038E", <<<<6310912, 5, 155>>, <<0, 136, 5>>>>>>,
      <<"U+038F", <<<<6313472, 5, 155>>, <<0, 136, 5>>>>>>,
      <<"U+0390", <<<<6299648, 5, 5>>, <<0, 150, 5>>, <<0, 136, 5>>>>>>,
      <<"U+0391", <<<<6292992, 5, 166>>>>>>,
      <<"U+0392", <<<<6293504, 5, 158>>>>>>,
      <<"U+0393", <<<<6294016, 5, 152>>>>>>,
      <<"U+0394", <<<<6295040, 5, 155>>>>>>,
      <<"U+0395", <<<<6295552, 5, 166>>>>>>,
      <<"U+0396", <<<<6297600, 5, 158>>>>>>,
      <<"U+0397", <<<<6298624, 5, 158>>>>>>,
      <<"U+0398", <<<<6299136, 5, 158>>>>>>,
      <<"U+0399", <<<<6299648, 5, 166>>>>>>,
      <<"U+039A", <<<<6300672, 5, 160>>>>>>,
      <<"U+039B", <<<<6301184, 5, 158>>>>>>,
      <<"U+039C", <<<<6302208, 5, 160>>>>>>,
      <<"U+039D", <<<<6302720, 5, 158>>>>>>,
      <<"U+039E", <<<<6303232, 5, 158>>>>>>,
      <<"U+039F", <<<<6303744, 5, 158>>>>>>,
      <<"U+03A0", <<<<6304256, 5, 166>>>>>>,
      <<"U+03A1", <<<<6306816, 5, 160>>>>>>,
      <<"U+03A3", <<<<6308352, 5, 158>>>>>>,
      <<"U+03A4", <<<<6310400, 5, 158>>>>>>,
      <<"U+03A5", <<<<6310912, 5, 155>>>>>>,
      <<"U+03A6", <<<<6311424, 5, 158>>>>>>,
      <<"U+03A7", <<<<6311936, 5, 152>>>>>>,
      <<"U+03A8", <<<<6312448, 5, 158>>>>>>,
      <<"U+03A9", <<<<6313472, 5, 155>>>>>>,
      <<"U+03AA", <<<<6299648, 5, 166>>, <<0, 150, 5>>>>>>,
      <<"U+03AB", <<<<6310912, 5, 155>>, <<0, 150, 5>>>>>>,
      <<"U+03AC", <<<<6292992, 5, 5>>, <<0, 136, 5>>>>>>,
      <<"U+03AD", <<<<6295552, 5, 5>>, <<0, 136, 5>>>>>>,
      <<"U+03AE", <<<<6298624, 5, 5>>, <<0, 136, 5>>>>>>,
      <<"U+03AF", <<<<6299648, 5, 5>>, <<0, 136, 5>>>>>>,
      <<"U+03B0", <<<<6310912, 5, 5>>, <<0, 150, 5>>, <<0, 136, 5>>>>>>,
      <<"U+03B1", <<<<6292992, 5, 5>>>>>>,
      <<"U+03B2", <<<<6293504, 5, 5>>>>>>,
      <<"U+03B3", <<<<6294016, 5, 5>>>>>>,
      <<"U+03B4", <<<<6295040, 5, 5>>>>>>,
      <<"U+03B5", <<<<6295552, 5, 5>>>>>>,
      <<"U+03B6", <<<<6297600, 5, 5>>>>>>,
      <<"U+03B7", <<<<6298624, 5, 5>>>>>>,
      <<"U+03B8", <<<<6299136, 5, 5>>>>>>,
      <<"U+03B9", <<<<6299648, 5, 5>>>>>>,
      <<"U+03BA", <<<<6300672, 5, 5>>>>>>,
      <<"U+03BB", <<<<6301184, 5, 5>>>>>>,
      <<"U+03BC", <<<<6302208, 5, 5>>>>>>,
      <<"U+03BD", <<<<6302720, 5, 5>>>>>>,
      <<"U+03BE", <<<<6303232, 5, 5>>>>>>,
      <<"U+03BF", <<<<6303744, 5, 5>>>>>>,
      <<"U+03C0", <<<<6304256, 5, 5>>>>>>,
      <<"U+03C1", <<<<6306816, 5, 5>>>>>>,
      <<"U+03C2", <<<<6308352, 5, 51>>>>>>,
      <<"U+03C3", <<<<6308352, 5, 5>>>>>>,
      <<"U+03C4", <<<<6310400, 5, 5>>>>>>,
      <<"U+03C5", <<<<6310912, 5, 5>>>>>>,
      <<"U+03C6", <<<<6311424, 5, 5>>>>>>,
      <<"U+03C7", <<<<6311936, 5, 5>>>>>>,
      <<"U+03C8", <<<<6312448, 5, 5>>>>>>,
      <<"U+03C9", <<<<6313472, 5, 5>>>>>>,
      <<"U+03CA", <<<<6299648, 5, 5>>, <<0, 150, 5>>>>>>,
      <<"U+03CB", <<<<6310912, 5, 5>>, <<0, 150, 5>>>>>>,
      <<"U+03CC", <<<<6303744, 5, 5>>, <<0, 136, 5>>>>>>,
      <<"U+03CD", <<<<6310912, 5, 5>>, <<0, 136, 5>>>>>>,
      <<"U+03CE", <<<<6313472, 5, 5>>, <<0, 136, 5>>>>>>,
      <<"U+1680", <<<<262144, 5, 24>>>>>>,
      <<"U+1E9E", <<<<5111808, 112, 160>>, <<5111808, 5, 162>>>>>>,
      <<"U+2000", <<<<262144, 5, 24>>>>>>,
      <<"U+2001", <<<<262144, 5, 24>>>>>>,
      <<"U+2002", <<<<262144, 5, 24>>>>>>,
      <<"U+2003", <<<<262144, 5, 24>>>>>>,
      <<"U+2004", <<<<262144, 5, 24>>>>>>,
      <<"U+2005", <<<<262144, 5, 24>>>>>>,
      <<"U+2006", <<<<262144, 5, 24>>>>>>,
      <<"U+2007", <<<<262144, 5, 40>>>>>>,
      <<"U+2008", <<<<262144, 5, 24>>>>>>,
      <<"U+2009", <<<<262144, 5, 24>>>>>>,
      <<"U+200A", <<<<262144, 5, 24>>>>>>, <<"U+200B", <<>>>>,
      <<"U+2028", <<<<200704, 5, 5>>>>>>, <<"U+2029", <<<<201216, 5, 5>>>>>>,
      <<"U+202F", <<<<262144, 5, 40>>>>>>,
      <<"U+205F", <<<<262144, 5, 24>>>>>>,
      <<"U+20AC", <<<<904192, 5, 5>>>>>>,
      <<"U+212A", <<<<4063232, 5, 156>>>>>>,
      <<"U+212B", <<<<2752512, 5, 156>>, <<0, 146, 5>>>>>>,
      <<"U+3000", <<<<262144, 5, 16>>>>>>, <<"U+FEFF", <<>>>> >>
\* The pairs of characters the root collation weighs as one.
RootContractions ==
    <<
      <<<<"L", "U+00B7">>, <<<<4194304, 5, 156>>, <<0, 251, 5>>, <<0, 148, 192>>>>>>,
      <<<<"l", "U+00B7">>, <<<<4194304, 5, 5>>, <<0, 251, 5>>, <<0, 148, 192>>>>>> >>
\* The characters the Danish collation weighs otherwise, and its contractions.
DanishTailoring ==
    <<
      <<"U+00C4", <<<<6125314, 70, 134>>>>>>,
      <<"U+00C5", <<<<6125316, 5, 134>>>>>>,
      <<"U+00C6", <<<<6125314, 5, 134>>>>>>,
      <<"U+00D0", <<<<3145728, 71, 134>>>>>>,
      <<"U+00D6", <<<<6125315, 70, 134>>>>>>,
      <<"U+00D8", <<<<6125315, 5, 134>>>>>>,
      <<"U+00DC", <<<<5898240, 70, 134>>>>>>,
      <<"U+00DE", <<<<5242880, 5, 156>>, <<3670016, 5, 29>>>>>>,
      <<"U+00E4", <<<<6125314, 70, 5>>>>>>,
      <<"U+00E5", <<<<6125316, 5, 5>>>>>>,
      <<"U+00E6", <<<<6125314, 5, 5>>>>>>,
      <<"U+00F0", <<<<3145728, 71, 5>>>>>>,
      <<"U+00F6", <<<<6125315, 70, 5>>>>>>,
      <<"U+00F8", <<<<6125315, 5, 5>>>>>>,
      <<"U+00FC", <<<<5898240, 70, 5>>>>>>,
      <<"U+00FE", <<<<5242880, 5, 5>>, <<3670016, 5, 6>>>>>>,
      <<"U+0110", <<<<3145728, 70, 134>>>>>>,
      <<"U+0111", <<<<3145728, 70, 5>>>>>>,
      <<"U+0150", <<<<6125315, 71, 134>>>>>>,
      <<"U+0151", <<<<6125315, 71, 5>>>>>>,
      <<"U+0152", <<<<4587520, 5, 133>>, <<3276800, 70, 134>>>>>>,
      <<"U+0153", <<<<4587520, 5, 5>>, <<3276800, 70, 5>>>>>>,
      <<"U+0170", <<<<5898240, 71, 134>>>>>>,
      <<"U+0171", <<<<5898240, 71, 5>>>>>>,
      <<"U+212B", <<<<6125316, 5, 134>>>>>> >>
DanishContractions ==
    <<
      <<<<"A", "A">>, <<<<6125316, 5, 137>>>>>>,
      <<<<"A", "a">>, <<<<6125316, 5, 72>>>>>>,
      <<<<"A", "U+00C0">>, <<<<6125316, 5, 137>>, <<0, 138, 5>>>>>>,
      <<<<"A", "U+00C1">>, <<<<6125316, 5, 137>>, <<0, 136, 5>>>>>>,
      <<<<"A", "U+00C2">>, <<<<6125316, 5, 137>>, <<0, 142, 5>>>>>>,
      <<<<"A", "U+00C3">>, <<<<6125316, 5, 137>>, <<0, 154, 5>>>>>>,
      <<<<"A", "U+00C4">>, <<<<6125316, 5, 137>>, <<0, 150, 5>>>>>>,
      <<<<"A", "U+00C5">>, <<<<6125316, 5, 137>>, <<0, 146, 5>>>>>>,
      <<<<"A", "U+00E0">>, <<<<6125316, 5, 72>>, <<0, 138, 5>>>>>>,
      <<<<"A", "U+00E1">>, <<<<6125316, 5, 72>>, <<0, 136, 5>>>>>>,
      <<<<"A", "U+00E2">>, <<<<6125316, 5, 72>>, <<0, 142, 5>>>>>>,
      <<<<"A", "U+00E3">>, <<<<6125316, 5, 72>>, <<0, 154, 5>>>>>>,
      <<<<"A", "U+00E4">>, <<<<6125316, 5, 72>>, <<0, 150, 5>>>>>>,
      <<<<"A", "U+00E5">>, <<<<6125316, 5, 72>>, <<0, 146, 5>>>>>>,
      <<<<"A", "U+0100">>, <<<<6125316, 5, 137>>, <<0, 164, 5>>>>>>,
      <<<<"A", "U+0101">>, <<<<6125316, 5, 72>>, <<0, 164, 5>>>>>>,
      <<<<"A", "U+0102">>, <<<<6125316, 5, 137>>, <<0, 140, 5>>>>>>,
      <<<<"A", "U+0103">>, <<<<6125316, 5, 72>>, <<0, 140, 5>>>>>>,
      <<<<"A", "U+0104">>, <<<<6125316, 5, 137>>, <<0, 162, 5>>>>>>,
      <<<<"A", "U+0105">>, <<<<6125316, 5, 72>>, <<0, 162, 5>>>>>>,
      <<<<"A", "U+212B">>, <<<<6125316, 5, 137>>, <<0, 146, 5>>>>>>,
      <<<<"a", "a">>, <<<<6125316, 5, 7>>>>>>,
      <<<<"a", "U+00E0">>, <<<<6125316, 5, 7>>, <<0, 138, 5>>>>>>,
      <<<<"a", "U+00E1">>, <<<<6125316, 5, 7>>, <<0, 136, 5>>>>>>,
      <<<<"a", "U+00E2">>, <<<<6125316, 5, 7>>, <<0, 142, 5>>>>>>,
      <<<<"a", "U+00E3">>, <<<<6125316, 5, 7>>, <<0, 154, 5>>>>>>,
      <<<<"a", "U+00E4">>, <<<<6125316, 5, 7>>, <<0, 150, 5>>>>>>,
      <<<<"a", "U+00E5">>, <<<<6125316, 5, 7>>, <<0, 146, 5>>>>>>,
      <<<<"a", "U+0101">>, <<<<6125316, 5, 7>>, <<0, 164, 5>>>>>>,
      <<<<"a", "U+0103">>, <<<<6125316, 5, 7>>, <<0, 140, 5>>>>>>,
      <<<<"a", "U+0105">>, <<<<6125316, 5, 7>>, <<0, 162, 5>>>>>> >>
\* The characters the Estonian collation weighs otherwise.
EstonianTailoring ==
    <<
      <<"Z", <<<<5189120, 5, 134>>>>>>, <<"z", <<<<5189120, 5, 5>>>>>>,
      <<"U+00C4", <<<<5704704, 5, 134>>>>>>,
      <<"U+00D5", <<<<5704448, 5, 134>>>>>>,
      <<"U+00D6", <<<<5704960, 5, 134>>>>>>,
      <<"U+00DC", <<<<5705216, 5, 134>>>>>>,
      <<"U+00E4", <<<<5704704, 5, 5>>>>>>,
      <<"U+00F5", <<<<5704448, 5, 5>>>>>>,
      <<"U+00F6", <<<<5704960, 5, 5>>>>>>,
      <<"U+00FC", <<<<5705216, 5, 5>>>>>>,
      <<"U+0160", <<<<5188864, 5, 134>>>>>>,
      <<"U+0161", <<<<5188864, 5, 5>>>>>>,
      <<"U+0179", <<<<5189120, 5, 134>>, <<0, 136, 5>>>>>>,
      <<"U+017A", <<<<5189120, 5, 5>>, <<0, 136, 5>>>>>>,
      <<"U+017B", <<<<5189120, 5, 134>>, <<0, 156, 5>>>>>>,
      <<"U+017C", <<<<5189120, 5, 5>>, <<0, 156, 5>>>>>>,
      <<"U+017D", <<<<5189376, 5, 134>>>>>>,
      <<"U+017E", <<<<5189376, 5, 5>>>>>> >>

\* The collation elements of the characters and of the contractions in each
\* locale.
Elements ==
    [loc \in HostLocales |->
        LET root == Tabulate(RootCollation)
            tailored == Tabulate(CASE loc = "da-DK" -> DanishTailoring
                                   [] loc = "et-EE" -> EstonianTailoring
                                   [] OTHER -> <<>>)
        IN [c \in DOMAIN root |->
               IF c \in DOMAIN tailored THEN tailored[c] ELSE root[c]]]
Contractions ==
    [loc \in HostLocales |->
        Tabulate(RootContractions
                     \o (IF loc = "da-DK" THEN DanishContractions ELSE <<>>))]

\* The collation elements of the string s from index p on: a contraction
\* where two characters form one, the elements of the character otherwise.
RECURSIVE CollationElementsFrom(_, _, _)
CollationElementsFrom(loc, s, p) ==
    IF p > Len(s) THEN <<>>
    ELSE IF p < Len(s) /\ <<s[p], s[p + 1]>> \in DOMAIN Contractions[loc]
         THEN Contractions[loc][<<s[p], s[p + 1]>>]
                  \o CollationElementsFrom(loc, s, p + 2)
         ELSE Elements[loc][s[p]] \o CollationElementsFrom(loc, s, p + 1)

\* The tertiary weight compared: without the case bits, or with the case bits
\* inverted where upper case comes first (da-DK).
TertiaryWeight(loc, t) ==
    IF t % 64 = 0 THEN 0
    ELSE IF loc = "da-DK" THEN (3 - (t \div 64)) * 64 + (t % 64)
    ELSE t % 64

\* The weights of one level (1 primary, 2 secondary, 3 tertiary) of a
\* sequence of collation elements, the ignored ones left out.
LevelWeights(loc, ces, level) ==
    LET w == [i \in 1..Len(ces) |->
                 IF level = 3 THEN TertiaryWeight(loc, ces[i][3]) ELSE ces[i][level]]
    IN SelectSeq(w, LAMBDA n : n # 0)

\* x comes before y in the lexicographic order of sequences of numbers.
LexLess(x, y) ==
    \E k \in 1..Len(y) :
        /\ k - 1 <= Len(x)
        /\ \A j \in 1..(k - 1) : x[j] = y[j]
        /\ (k <= Len(x) => x[k] < y[k])

\* a.localeCompare(b) in the locale loc: the first level the two strings
\* differ on decides.
localeCompareIn(loc, a, b) ==
    LET x == CollationElementsFrom(loc, a, 1)
        y == CollationElementsFrom(loc, b, 1)
        differ == {l \in 1..3 : LevelWeights(loc, x, l) # LevelWeights(loc, y, l)}
    IN IF differ = {} THEN 0
       ELSE LET l == CHOOSE m \in differ : \A n \in differ : m <= n
            IN IF LexLess(LevelWeights(loc, x, l), LevelWeights(loc, y, l))
               THEN -1 ELSE 1

\* a.localeCompare(b) in the default locale of the host.
localeCompare(a, b) == localeCompareIn(hostLocale, a, b)

\* a.localeCompare(b) < 0.
LocaleLess(a, b) == localeCompare(a, b) < 0

\* The comparator of line 178 puts a before b.
KeyBefore(a, b) ==
    IF a = L_UNKNOWN THEN FALSE
    ELSE IF b = L_UNKNOWN THEN TRUE
    ELSE LocaleLess(a, b)

\* The elements of the set S of numbers as an ascending sequence.
Ascending(S) ==
    [k \in 1..Cardinality(S) |->
        CHOOSE i \in S : Cardinality({j \in S : j < i}) = k - 1]

\* The names every plain object inherits a value for: acc[key] of line 165
\* finds that value when the accumulator has no group of that name.
InheritedKeys == ObjectPrototypeMethods \cup {ProtoKey}

\* The reduce of lines 163-173 throws: for an inherited key !acc[key] is
\* false and acc[key].includes is not a function.
displayThrows(results) ==
    \E i \in 1..Len(results) :
        JsToString(results[i].StandardizedFirmName) \in InheritedKeys

\* The variants of the group key: the input names of the records whose
\* standardized name is key, each once, in the order of their first record
\* (the reduce of lines 163-173).
GroupVariants(results, key) ==
    LET mine == {i \in 1..Len(results) :
                    JsToString(results[i].StandardizedFirmName) = key}
        inputs == {results[i].InputFirmName : i \in mine}
        firstOf(val) ==
            CHOOSE i \in mine :
                /\ results[i].InputFirmName = val
                /\ \A j \in 1..(i - 1) :
                       j \in mine => results[j].InputFirmName # val
        firsts == Ascending({firstOf(val) : val \in inputs})
    IN IF key \in InheritedKeys THEN TypeError
       ELSE [k \in 1..Len(firsts) |-> results[firsts[k]].InputFirmName]

\* The digit d as a number.
DigitValue(d) == CHOOSE n \in 0..9 : DecimalDigits[n + 1] = d

\* The numeral a denotes less than the numeral b (neither has leading zeros).
NumeralLess(a, b) ==
    \/ Len(a) < Len(b)
    \/ /\ Len(a) = Len(b)
       /\ \E i \in 1..Len(a) :
              /\ DigitValue(a[i]) < DigitValue(b[i])
              /\ \A j \in 1..(i - 1) : a[j] = b[j]

\* A key that is an array index, 0 to 2^32 - 2: Object.keys lists these
\* first.
MaxArrayIndex == <<"4", "2", "9", "4", "9", "6", "7", "2", "9", "4">>
IsArrayIndex(key) ==
    /\ Len(key) >= 1
    /\ \A i \in 1..Len(key) : key[i] \in DigitChars
    /\ key[1] = "0" => Len(key) = 1
    /\ ~NumeralLess(MaxArrayIndex, key)

\* Object.keys(grouped), line 177: the array indices in ascending order,
\* then the other keys in the order the reduce created them.
GroupKeys(results) ==
    LET keyOf == [i \in 1..Len(results) |->
                     JsToString(results[i].StandardizedFirmName)]
        firstOf(key) ==
            CHOOSE i \in 1..Len(results) :
                keyOf[i] = key /\ \A j \in 1..(i - 1) : keyOf[j] # key
        firsts == {firstOf(key) : key \in {keyOf[i] : i \in 1..Len(results)}}
        indices == {i \in firsts : IsArrayIndex(keyOf[i])}
        byValue ==
            [k \in 1..Cardinality(indices) |->
                CHOOSE i \in indices :
                    Cardinality({j \in indices :
                        NumeralLess(keyOf[j], keyOf[i])}) = k - 1]
        others == Ascending(firsts \ indices)
    IN [k \in 1..Cardinality(firsts) |->
           IF k <= Len(byValue) THEN keyOf[byValue[k]]
           ELSE keyOf[others[k - Len(byValue)]]]

\* keys.sort(comparator), line 178: keys the comparator does not tell apart
\* stay in the order they had.
SortKeys(keys) ==
    LET ahead(j, k) ==
            \/ KeyBefore(keys[j], keys[k])
            \/ j < k /\ ~KeyBefore(keys[k], keys[j])
    IN [p \in 1..Len(keys) |->
           keys[CHOOSE k \in 1..Len(keys) :
                    Cardinality({j \in 1..Len(keys) : j # k /\ ahead(j, k)}) = p - 1]]

\* resultsDiv after displayResults(): one entry per group, in the sorted order
\* of the keys, with the variants shown and the number left out; or the
\* TypeError the reduce throws before anything is written.
displayResults(results) ==
    LET sortedKeys == SortKeys(GroupKeys(results))
        entry(key) ==
            LET variants == GroupVariants(results, key)
            IN [key |-> key,
                count |-> Len(variants),
                shown |-> SubSeq(variants, 1, Min(MaxShown, Len(variants))),
                more |-> IF Len(variants) > MaxShown
                         THEN Len(variants) - MaxShown ELSE 0]
    IN IF displayThrows(results) THEN TypeError
       ELSE [k \in 1..Len(sortedKeys) |-> entry(sortedKeys[k])]

(***************************************************************************)
(* processData and processChunk, src/script.js lines 116-151               *)
(***************************************************************************)
NoRun == [state |-> "none", column |-> <<>>, processedCount |-> 0,
          totalRows |-> 0, file |-> NoFile]
NoCall == [made |-> FALSE, input |-> Undefined, outcome |-> Return(Undefined, FALSE)]

\* row[column] for the row at index i - 1 of parsedData (rows are counted
\* from 1 here), lines 128-129.
originalName(i, column) == GetProp(parsedRows[i], column)

\* One call of processChunk() with the closure's column, processedCount and
\* totalRows: the loop of lines 127-135 and what stopped it.  A row that is
\* no longer in parsedData makes row[column] throw; standardizeName may throw;
\* either ends the chunk at that row, with the rows before it already
\* pushed.  standardizeName is evaluated once for each distinct name of the
\* chunk: its result depends on the name alone while the chunk runs.
chunkLoop(column, processedCount, end, length, outcomes) ==
    LET outcome(i) == (CHOOSE p \in outcomes : p[1] = originalName(i, column))[2]
        throwing == {i \in (processedCount + 1)..end :
                        i > length \/ outcome(i).kind = "throw"}
        stop == IF throwing = {} THEN end + 1
                ELSE CHOOSE i \in throwing : \A j \in throwing : i <= j
        lastCalled == IF stop <= end /\ stop <= length THEN stop ELSE stop - 1
    IN [end |-> end,
        aborted |-> stop <= end,
        pushed |-> [k \in 1..(stop - 1 - processedCount) |->
                       [InputFirmName |-> originalName(processedCount + k, column),
                        StandardizedFirmName |-> outcome(processedCount + k).value]],
        called |-> lastCalled > processedCount,
        call |-> IF lastCalled > processedCount
                 THEN [made |-> TRUE,
                       input |-> originalName(lastCalled, column),
                       outcome |-> outcome(lastCalled)]
                 ELSE NoCall]

processChunk(column, processedCount, totalRows) ==
    chunkLoop(column, processedCount, Min(processedCount + chunkSize, totalRows),
              Len(parsedRows),
              {<<name, standardizeName(name)>> :
                  name \in {originalName(i, column) :
                               i \in (processedCount + 1)..
                                     Min(Min(processedCount + chunkSize, totalRows),
                                         Len(parsedRows))}})

\* The state a call of processChunk() leaves, lines 123-148: results is
\* normalizedResults and shown is the status as the call finds them.  An
\* exception leaves the handler or the timer callback with the button still
\* disabled and nothing scheduled.
runChunk(column, processedCount, totalRows, file, results, shown) ==
    \E chunk \in {processChunk(column, processedCount, totalRows)} :
        /\ normalizedResults' = results \o chunk.pushed
        /\ lastCall' = IF chunk.called THEN chunk.call ELSE lastCall
        /\ run' = [state |-> IF chunk.aborted THEN "aborted"
                             ELSE IF chunk.end < totalRows THEN "yielded"
                             ELSE "completed",
                   column |-> column,
                   processedCount |-> IF chunk.aborted THEN processedCount
                                      ELSE chunk.end,
                   totalRows |-> totalRows,
                   file |-> file]
        /\ IF chunk.aborted
           THEN /\ status' = shown
                /\ processButtonDisabled' = TRUE
                /\ UNCHANGED <<resultsView, resultsShown>>
           ELSE IF chunk.end < totalRows
           THEN /\ status' = showStatus("Processing", "", chunk.end, totalRows, FALSE)
                /\ processButtonDisabled' = TRUE
                /\ UNCHANGED <<resultsView, resultsShown>>
           ELSE /\ status' = showStatus("Normalization complete", "", totalRows, 0, FALSE)
                /\ processButtonDisabled' = FALSE
                /\ IF displayThrows(normalizedResults')
                   THEN UNCHANGED <<resultsView, resultsShown>>
                   ELSE /\ resultsView' = displayResults(normalizedResults')
                        /\ resultsShown' = TRUE

\* A click handler that runs although the button is disabled.
ProcessButtonClickAnyTime ==
    /\ IF columnSelectorValue = <<>> \/ Len(parsedRows) = 0
       THEN /\ status' = showStatus("Invalid column or no data", "", 0, 0, TRUE)
            /\ UNCHANGED <<normalizedResults, lastCall, run, processButtonDisabled,
                           resultsView, resultsShown>>
       ELSE runChunk(columnSelectorValue, 0, Len(parsedRows), parsedData, <<>>,
                     showStatus("Starting normalization process", "", 0, 0, FALSE))
    /\ exported' = NoExport
    /\ UNCHANGED <<hostLocale, kbSource, initPc, knowledgeBase, fuse, parsedData, headers,
                   columnSelectorValue, columnSelectorShown, pendingParses,
                   probe>>

\* The click handler of the process button, lines 106-114, with processData
\* and the first call of processChunk.  A disabled button receives no click.
ProcessButtonClick ==
    /\ ~processButtonDisabled
    /\ IF columnSelectorValue = <<>> \/ Len(parsedRows) = 0
       THEN /\ status' = showStatus("Invalid column or no data", "", 0, 0, TRUE)
            /\ UNCHANGED <<normalizedResults, lastCall, run, processButtonDisabled,
                           resultsView, resultsShown>>
       ELSE runChunk(columnSelectorValue, 0, Len(parsedRows), parsedData, <<>>,
                     showStatus("Starting normalization process", "", 0, 0, FALSE))
    /\ exported' = NoExport
    /\ UNCHANGED <<hostLocale, kbSource, initPc, knowledgeBase, fuse, parsedData, headers,
                   columnSelectorValue, columnSelectorShown, pendingParses,
                   probe>>

\* The callback of setTimeout(processChunk, 0), line 142.
ProcessChunkTimer ==
    /\ run.state = "yielded"
    /\ runChunk(run.column, run.processedCount, run.totalRows, run.file,
                normalizedResults, status)
    /\ exported' = NoExport
    /\ UNCHANGED <<hostLocale, kbSource, initPc, knowledgeBase, fuse, parsedData, headers,
                   columnSelectorValue, columnSelectorShown, pendingParses,
                   probe>>

(***************************************************************************)
(* The download button, src/script.js lines 213-228                        *)
(***************************************************************************)

\* A value as Papa.unparse writes it: null and undefined as the empty field.
CsvField(val) ==
    IF val.t \in {"undefined", "null"} THEN <<>> ELSE JsToString(val)

\* Papa.unparse(normalizedResults): the field names of the records, then one
\* line per record.
unparse(results) ==
    [written |-> TRUE,
     fields |-> <<"Input Firm Name", "Standardized Firm Name">>,
     rows |-> [i \in 1..Len(results) |->
                  <<CsvField(results[i].InputFirmName),
                    CsvField(results[i].StandardizedFirmName)>>]]

DownloadButtonClick ==
    /\ IF Len(normalizedResults) = 0
       THEN exported' = NoExport
       ELSE exported' = unparse(normalizedResults)
    /\ UNCHANGED <<hostLocale, kbSource, initPc, knowledgeBase, fuse, parsedData, headers,
                   normalizedResults, status, columnSelectorValue,
                   columnSelectorShown, resultsShown, resultsView,
                   processButtonDisabled, pendingParses, run, lastCall, probe>>

(***************************************************************************)
(* The application: DOMContentLoaded has run the listener, which ends by   *)
(* calling initialize() (line 231); initialize() has shown its first       *)
(* status and awaits fetch.                                                *)
(***************************************************************************)
NoProbe == [on |-> FALSE, arg |-> Undefined, out |-> <<>>]

\* The page before the user has done anything: lines 13-17 and the markup.
UntouchedPage ==
    /\ parsedData = NoFile
    /\ headers = <<>>
    /\ normalizedResults = <<>>
    /\ columnSelectorValue = <<>>
    /\ columnSelectorShown = FALSE
    /\ resultsShown = FALSE
    /\ resultsView = <<>>
    /\ processButtonDisabled = FALSE
    /\ pendingParses = EmptyBag
    /\ run = NoRun
    /\ exported = NoExport
    /\ lastCall = NoCall

InitialPage ==
    /\ initPc = "fetch"
    /\ knowledgeBase = Null
    /\ fuse = Null
    /\ status = showStatus("Loading AI knowledge base", "", 0, 0, FALSE)
    /\ UntouchedPage

\* The files of the main specification: two large ones.
Files == {"a.csv", "b.csv"}

Init ==
    /\ hostLocale = DefaultLocale
    /\ kbSource \in {Unreachable, Document(KBGood)}
    /\ InitialPage
    /\ probe = NoProbe

Next ==
    \/ FetchFails
    \/ FetchRespondsOk
    \/ JsonResolves
    \/ \E file \in Files : FileInputChange(file)
    \/ \E file \in Files : ParseComplete(file)
    \/ \E file \in Files : ParseError(file)
    \/ \E header \in {H_Firm, H_Id} : SelectColumn(header)
    \/ ProcessButtonClick
    \/ ProcessChunkTimer
    \/ DownloadButtonClick

Spec == Init /\ [][Next]_vars

(***************************************************************************)
(* The load on its own: every kind of source, and a user who uploads the   *)
(* small file of scenario 4 while or after the page loads                  *)
(***************************************************************************)
InitLoad ==
    /\ hostLocale = DefaultLocale
    /\ kbSource \in Sources
    /\ InitialPage
    /\ probe = NoProbe

NextLoad ==
    \/ FetchFails
    \/ FetchRespondsNotOk
    \/ FetchRespondsOk
    \/ JsonFails
    \/ JsonResolves
    \/ FileInputChange("small.csv")
    \/ ParseComplete("small.csv")
    \/ ParseError("small.csv")
    \/ ProcessButtonClick
    \/ DownloadButtonClick

SpecLoad == InitLoad /\ [][NextLoad]_vars

(***************************************************************************)
(* cleanName on its own: called on a string, and again on what it returned *)
(***************************************************************************)
\* The words, suffix tokens, punctuation and white space the inputs are made
\* of.
CleanPieces ==
    { <<"A", "c", "m", "e">>,
      <<"x">>,
      <<"B", "a", "n", "k">>,
      <<" ", "b", "a", "n", "k", " ">>,
      <<"c", "o">>,
      <<"N", "A">>,
      <<"n", "a", "t", "i", "o", "n", "a", "l">>,
      <<"a", "s", "s", "o", "c", "i", "a", "t", "i", "o", "n">>,
      <<" ">>,
      <<"\t">>,
      <<VerticalTab>>,
      <<"U+00A0">>,
      <<"U+00C9">>,
      <<"B", "A", "N", "U+212A">>,
      <<".">>,
      <<"&">>,
      <<"-">> }
\* The most pieces an input is made of.
MaxPieces == 3

RECURSIVE Concatenations(_)
\* The strings made of exactly n pieces.
Concatenations(n) ==
    IF n = 0 THEN {<<>>}
    ELSE {s \o piece : s \in Concatenations(n - 1), piece \in CleanPieces}

\* The strings made of at most m pieces.
CleanInputs(m) == UNION {Concatenations(n) : n \in 0..m}

Probe(arg) == [on |-> TRUE, arg |-> arg, out |-> <<>>]

InitClean ==
    /\ hostLocale = DefaultLocale
    /\ kbSource = Unreachable
    /\ InitialPage
    /\ probe \in {Probe(Str(s)) : s \in CleanInputs(MaxPieces)}

\* cleanName(name) is called on the argument first, then on the string the
\* call before returned.
CleanCall ==
    /\ probe.on
    /\ Len(probe.out) < 2
    /\ probe' = [probe EXCEPT !.out =
                    Append(@, cleanName(IF @ = <<>> THEN probe.arg
                                        ELSE Str(@[Len(@)])))]
    /\ UNCHANGED <<hostLocale, kbSource, initPc, knowledgeBase, fuse, parsedData, headers,
                   normalizedResults, status, columnSelectorValue,
                   columnSelectorShown, resultsShown, resultsView,
                   processButtonDisabled, pendingParses, run, exported, lastCall>>

NextClean == CleanCall

SpecClean == InitClean /\ [][NextClean]_vars

(***************************************************************************)
(* standardizeName on its own: the page has loaded a knowledge base, the   *)
(* index answers with some distances, and standardizeName is called on one *)
(* value, as line 130 calls it on the value of a row                       *)
(***************************************************************************)
\* The values standardizeName is called on: absent, empty and non-string
\* values, and names.
StdInputs ==
    { Null, Undefined, Str(<<>>), Num(5),
      Str(R_AcmeBank), Str(R_ACMEBANKdot), Str(R_UNKNOWNCO), Str(R_AcmeeCorp),
      Str(R_Zenith), Str(R_ZenitLLC), Str(R_ConstructorInc), Str(R_BankNA),
      Str(R_AcmeVtBank), Str(R_ACMEBANKelvin) }
\* The distances the index may answer with, in hundredths: below, at and
\* above the confidence threshold, and beyond the threshold of the index.
StdScores == {20, 34, 35, 36, 41}

\* The index is indifferent to the empty query.
StdQueries(arg) == {cleanName(arg)} \ {<<>>}

InitStd ==
    /\ hostLocale = DefaultLocale
    /\ \E kb \in WellFormedDocs, arg \in StdInputs :
          /\ kbSource = Document(kb)
          /\ knowledgeBase = kb
          /\ \E sim \in SimTables(kb.allKnownVariants, StdQueries(arg), StdScores) :
                 fuse = FuseIndex(kb.allKnownVariants, sim)
          /\ probe = Probe(arg)
    /\ initPc = "done"
    /\ status = showStatus("Ready to process files", "", 0, 0, FALSE)
    /\ UntouchedPage

\* const standardizedName = standardizeName(originalName), line 130.
StandardizeCall ==
    /\ probe.on
    /\ probe.out = <<>>
    /\ probe' = [probe EXCEPT !.out = <<standardizeName(probe.arg)>>]
    /\ UNCHANGED <<hostLocale, kbSource, initPc, knowledgeBase, fuse, parsedData, headers,
                   normalizedResults, status, columnSelectorValue,
                   columnSelectorShown, resultsShown, resultsView,
                   processButtonDisabled, pendingParses, run, exported, lastCall>>

NextStd == StandardizeCall

SpecStd == InitStd /\ [][NextStd]_vars

(***************************************************************************)
(* The page with a knowledge base of six firms and files of at most one    *)
(* chunk: every run ends in the call that started it, with the call of     *)
(* displayResults() of line 146.                                           *)
(***************************************************************************)
DisplayFiles == {"firms.csv", "builders.csv", "many.csv"}

InitDisplay ==
    /\ hostLocale \in HostLocales
    /\ kbSource = Document(KBDisplay)
    /\ InitialPage
    /\ probe = NoProbe

\* No file has more rows than a chunk, so no run yields to a timer; the
\* document is served and the files are well-formed, so neither fetch nor
\* json() nor a parse fails.
NextDisplay ==
    \/ FetchRespondsOk
    \/ JsonResolves
    \/ \E file \in DisplayFiles : FileInputChange(file)
    \/ \E file \in DisplayFiles : ParseComplete(file)
    \/ \E header \in {H_Firm, H_Id} : SelectColumn(header)
    \/ ProcessButtonClick
    \/ DownloadButtonClick

SpecDisplay == InitDisplay /\ [][NextDisplay]_vars

(***************************************************************************)
(* C1, C9: the load                                                        *)
(***************************************************************************)
\* initialize() has completed and left both knowledgeBase and fuse set.
Loaded == initPc = "done" /\ knowledgeBase # Null /\ fuse # Null

\* C1: standardizeName is called, and a run is started, only once the load
\* has completed successfully: in every state in which a call has been made
\* or a run has been started, knowledgeBase and fuse are both set.  (The
\* load never goes back, so a call made before it completed shows in the
\* state the call leaves.)
C1_LoadGating ==
    (lastCall.made \/ run.state # "none") => Loaded

\* The case of C1 that fails: the process button is clicked while the load
\* is pending; the run starts and its first call of standardizeName throws.
C1_RunStartedWhileLoading ==
    /\ initPc = "fetch"
    /\ run.state = "aborted"
    /\ lastCall.made
    /\ lastCall.outcome = Throw(TypeError, FALSE)
    /\ processButtonDisabled

\* C9: once initialize() has ended on a source that is unreachable, not ok,
\* not JSON or not a mapping with a set, it has ended in failure and
\* knowledgeBase and fuse are not both set; once it has ended in success,
\* both are set.
C9_LoadFailureHandling ==
    /\ (initPc \in {"done", "failed"} /\ ~WellFormedSource(kbSource))
           => initPc = "failed" /\ ~(knowledgeBase # Null /\ fuse # Null)
    /\ initPc = "done" => knowledgeBase # Null /\ fuse # Null

\* The case of C9 that fails: the document has no mapping; the page shows
\* Ready with knowledgeBase and fuse both set.
C9_ReadyWithoutMapping ==
    /\ kbSource = Document(DocNoVariants)
    /\ initPc = "done"
    /\ status = showStatus("Ready to process files", "", 0, 0, FALSE)
    /\ knowledgeBase = DocNoVariants
    /\ fuse # Null

(***************************************************************************)
(* C3, C4: the run                                                         *)
(***************************************************************************)
\* One record per row of rows, in row order: the value of the column, and
\* what standardizeName returns for it, taken from outcomes.
RecordsOf(rows, column, outcomes) ==
    [i \in 1..Len(rows) |->
        [InputFirmName |-> GetProp(rows[i], column),
         StandardizedFirmName |->
            (CHOOSE p \in outcomes : p[1] = GetProp(rows[i], column))[2].value]]

\* standardizeName applied to the column of each row of the file.
Standardization(file, column) ==
    RecordsOf(FileRows(file), column,
              {<<name, standardizeName(name)>> :
                  name \in {GetProp(FileRows(file)[i], column) :
                               i \in 1..Len(FileRows(file))}})

\* C3: when a run has completed, normalizedResults is standardizeName
\* applied to the selected column of each row of the batch the run was
\* started on, in row order, one record per row.
C3_ChunkingTransparency ==
    run.state = "completed"
        => normalizedResults = Standardization(run.file, run.column)

\* The case of C3 that fails: a run over a.csv yields after its first chunk,
\* the parse of b.csv completes, and the run completes with its last record
\* taken from b.csv.
C3_CompletedOnAnotherBatch ==
    /\ run.state = "completed"
    /\ run.file = "a.csv"
    /\ parsedData = "b.csv"
    /\ Len(normalizedResults) = Len(FileRows("a.csv"))
    /\ normalizedResults[Len(normalizedResults)].InputFirmName
           = GetProp(FileRows("b.csv")[Len(normalizedResults)], run.column)
    /\ normalizedResults # Standardization("a.csv", run.column)

\* C4: no run is left stuck: whenever the process button is disabled, a
\* call of processChunk is scheduled, so that the run goes on to
\* processedCount = totalRows and re-enables the button.
C4_NoRunLeftStuck ==
    processButtonDisabled => run.state = "yielded"

\* The case of C4 that fails: the knowledge base is loaded, a run over b.csv
\* yields after its first chunk, the parse of the shorter a.csv completes,
\* and the next chunk throws on the row a.csv does not have.
C4_AbortedOnShorterBatch ==
    /\ Loaded
    /\ run.state = "aborted"
    /\ run.file = "b.csv"
    /\ parsedData = "a.csv"
    /\ processButtonDisabled
    /\ Len(normalizedResults) = Len(FileRows("a.csv"))
    /\ Len(normalizedResults) < run.totalRows

(***************************************************************************)
(* C2, C5, C6, C7, C8: standardizeName                                     *)
(***************************************************************************)
\* standardizeName has been called on the value probe.arg.
Standardized == probe.on /\ probe.out # <<>>
\* What the call returned or threw.
Outcome == probe.out[1]
\* cleanName of the value standardizeName was called on.
Cleaned == cleanName(probe.arg)
\* The cleaned name is a key of knowledgeBase.variants.
ExactKey == Cleaned \in OwnKeys(knowledgeBase.variants)
\* What fuse.search answers for the cleaned name.
Candidates == FuseSearch(fuse, Cleaned)
\* A candidate of the index scores below the confidence threshold.
ConfidentCandidate ==
    \E k \in 1..Len(Candidates) : Candidates[k].score < ConfidenceThreshold
\* A label: a non-empty string.
IsLabel(val) == IsString(val) /\ val.v # <<>>

\* C2: standardizeName is total: whatever value it is called on and whatever
\* knowledge base is loaded, it returns, and what it returns is a non-empty
\* string.
C2_Total ==
    Standardized => Outcome.kind = "return" /\ IsLabel(Outcome.value)

\* The case of C2 that fails: the best candidate of the index is a variant
\* the mapping has no label for, and standardizeName returns undefined.
C2_ReturnsUndefined ==
    /\ Standardized
    /\ knowledgeBase = KBExtra
    /\ probe.arg = Str(R_Zenith)
    /\ Outcome = Return(Undefined, TRUE)

\* C5 as stated: whenever the cleaned name is a key of
\* knowledgeBase.variants, standardizeName returns the label of that key
\* and does not call fuse.search.
C5_ExactMatchPrecedence ==
    (Standardized /\ IsString(probe.arg) /\ ExactKey)
        => Outcome = Return(knowledgeBase.variants.props[Cleaned], FALSE)

\* C5, amended: whenever the cleaned name is not empty and is a key of
\* knowledgeBase.variants, standardizeName returns the label of that key and
\* does not call fuse.search, whatever the index would answer.
C5_ExactMatchPrecedenceNonEmpty ==
    (Standardized /\ IsString(probe.arg) /\ Cleaned # <<>> /\ ExactKey)
        => Outcome = Return(knowledgeBase.variants.props[Cleaned], FALSE)

\* The case of C5: the cleaned name is a key, the index holds a different
\* variant at a distance below the confidence threshold, and the label of
\* the key is returned.
C5_ExactKeyWithConfidentCandidate ==
    /\ Standardized
    /\ probe.arg = Str(R_ACMEBANKdot)
    /\ knowledgeBase = KBGood
    /\ FuseScore(fuse, Cleaned, 2) < ConfidenceThreshold
    /\ Outcome = Return(Str(L_AcmeCorporation), FALSE)

\* C6: the name standardizeName returns is UNKNOWN if and only if the
\* cleaned name is not a key of knowledgeBase.variants and no candidate of
\* the index scores below the confidence threshold.
C6_UnknownIffNoMatch ==
    (Standardized /\ Outcome.kind = "return")
        => (Outcome.value = UNKNOWN <=> (~ExactKey /\ ~ConfidentCandidate))

\* The case of C6 that fails: the cleaned name is no key and has no
\* candidate, and what is returned is not UNKNOWN but a property every
\* object inherits.
C6_InheritedProperty ==
    /\ Standardized
    /\ probe.arg = Str(R_ConstructorInc)
    /\ ~ExactKey
    /\ ~ConfidentCandidate
    /\ Outcome = Return(ObjectFunction, FALSE)

\* C7: when standardizeName has called fuse.search, a best candidate at
\* exactly the confidence threshold gives UNKNOWN, and a best candidate
\* below it gives what knowledgeBase.variants holds for the variant of that
\* candidate, which is the label of the variant when the variant is a key.
C7_ThresholdBoundary ==
    (Standardized /\ Outcome.kind = "return" /\ Outcome.searched
        /\ Len(Candidates) > 0)
        => /\ Candidates[1].score = ConfidenceThreshold => Outcome.value = UNKNOWN
           /\ Candidates[1].score < ConfidenceThreshold
                 => /\ Outcome.value = GetProp(knowledgeBase.variants, Candidates[1].item.v)
                    /\ Candidates[1].item.v \in OwnKeys(knowledgeBase.variants)
                          => Outcome.value =
                                knowledgeBase.variants.props[Candidates[1].item.v]

\* The case of C7: the best candidate of a name that is no key is at the
\* threshold exactly, and the name is rejected.
C7_RejectedAtThreshold ==
    /\ Standardized
    /\ probe.arg = Str(R_AcmeeCorp)
    /\ Outcome.searched
    /\ Len(Candidates) > 0
    /\ Candidates[1].score = ConfidenceThreshold
    /\ Outcome.value = UNKNOWN

\* C8: if every key of knowledgeBase.variants is in allKnownVariants, then
\* whenever standardizeName accepts a candidate of the index, the variant of
\* the candidate is a key of knowledgeBase.variants and the label returned
\* is defined.
C8_AcceptedVariantIsKey ==
    (/\ Standardized
     /\ \A key \in OwnKeys(knowledgeBase.variants) :
            \E n \in 1..Len(knowledgeBase.allKnownVariants.items) :
                knowledgeBase.allKnownVariants.items[n] = Str(key)
     /\ Outcome.kind = "return" /\ Outcome.searched
     /\ Len(Candidates) > 0
     /\ Candidates[1].score < ConfidenceThreshold)
        => /\ Candidates[1].item.v \in OwnKeys(knowledgeBase.variants)
           /\ Outcome.value # Undefined

\* The case of C8 that fails: every key is in allKnownVariants, which holds
\* one variant more; that variant is accepted and has no label.
C8_AcceptedVariantWithoutLabel ==
    /\ Standardized
    /\ knowledgeBase = KBExtra
    /\ probe.arg = Str(R_ZenitLLC)
    /\ Candidates[1].item = Str(K_zenith)
    /\ Candidates[1].score < ConfidenceThreshold
    /\ Outcome = Return(Undefined, TRUE)

(***************************************************************************)
(* C10                                                                     *)
(***************************************************************************)
R_national_bank_association ==
    <<"n", "a", "t", "i", "o", "n", "a", "l", " ", "b", "a", "n", "k", " ",
      "a", "s", "s", "o", "c", "i", "a", "t", "i", "o", "n">>
K_national_association ==
    <<"n", "a", "t", "i", "o", "n", "a", "l", " ",
      "a", "s", "s", "o", "c", "i", "a", "t", "i", "o", "n">>

\* C10: cleanName is idempotent: once cleanName has been called on a string
\* and then on its own result, the second result equals the first.
C10_CleanNameIdempotent ==
    (probe.on /\ Len(probe.out) = 2) => probe.out[2] = probe.out[1]

\* The case of C10 that fails: removing "bank" from between "national" and
\* "association" leaves the two-word token, which the second call removes.
C10_TokenFormedByRemoval ==
    /\ probe.on
    /\ probe.arg = Str(R_national_bank_association)
    /\ probe.out = <<K_national_association, <<>>>>

\* The last run has ended, in the call of processChunk() that took its last
\* row, with the status of line 144 and the call of displayResults() of
\* line 146, and the status has not been written since.
Displayed ==
    /\ run.state = "completed"
    /\ status = showStatus("Normalization complete", "", run.totalRows, 0, FALSE)

\* The keys of the groups shown, in the order shown.
ShownKeys == [k \in 1..Len(resultsView) |-> resultsView[k].key]

\* The standardized names of the records, as keys.
RecordKeys ==
    {JsToString(normalizedResults[i].StandardizedFirmName) :
        i \in 1..Len(normalizedResults)}

\* The records of normalizedResults whose standardized name reads key.
RecordsOfKey(key) ==
    {i \in 1..Len(normalizedResults) :
        JsToString(normalizedResults[i].StandardizedFirmName) = key}

\* The first record of the group key that carries the input name val.
FirstRecord(key, val) ==
    CHOOSE i \in RecordsOfKey(key) :
        /\ normalizedResults[i].InputFirmName = val
        /\ \A j \in RecordsOfKey(key) :
               normalizedResults[j].InputFirmName = val => i <= j

\* C11: once displayResults has been called, the groups are shown and their
\* keys are exactly the distinct standardized names of the records, each
\* once; UNKNOWN, when present, is the last key, and the other keys ascend
\* under the locale-aware comparison of localeCompare.
C11_GroupOrdering ==
    Displayed =>
        /\ resultsShown
        /\ {ShownKeys[k] : k \in 1..Len(ShownKeys)} = RecordKeys
        /\ \A j, k \in 1..Len(ShownKeys) : j # k => ShownKeys[j] # ShownKeys[k]
        /\ \A k \in 1..(Len(ShownKeys) - 1) : ShownKeys[k] # L_UNKNOWN
        /\ \A j, k \in 1..Len(ShownKeys) :
               (j < k /\ ShownKeys[k] # L_UNKNOWN)
                   => ~LocaleLess(ShownKeys[k], ShownKeys[j])

\* The case of C11 that fails: a run has standardized one name to
\* 'constructor', a name every object inherits a property for, and another
\* to UNKNOWN, and after the call of displayResults no key is shown.
C11_NoKeyShown ==
    /\ Displayed
    /\ ConstructorKey \in RecordKeys
    /\ L_UNKNOWN \in RecordKeys
    /\ ~resultsShown
    /\ ShownKeys = <<>>

\* C12: once displayResults has been called, every standardized name of the
\* records has its group, and the variants of every group are input names
\* of records of that group only, no name twice, every input name of the
\* group counted once, in the order of their first records; two spellings
\* of one firm are two variants of one group.
C12_GroupContents ==
    Displayed =>
        /\ resultsShown
        /\ \A key \in RecordKeys : \E k \in 1..Len(resultsView) : resultsView[k].key = key
        /\ \A k \in 1..Len(resultsView) :
            LET key == resultsView[k].key
                shown == resultsView[k].shown
                inputs == {normalizedResults[i].InputFirmName : i \in RecordsOfKey(key)}
                listed == {shown[j] : j \in 1..Len(shown)}
            IN /\ listed \subseteq inputs
               /\ \A j, l \in 1..Len(shown) : j # l => shown[j] # shown[l]
               /\ resultsView[k].count = Cardinality(inputs)
               /\ resultsView[k].count <= MaxShown => listed = inputs
               /\ \A j \in 1..(Len(shown) - 1) :
                      FirstRecord(key, shown[j]) < FirstRecord(key, shown[j + 1])
               /\ \A val \in inputs \ listed :
                      FirstRecord(key, shown[Len(shown)]) < FirstRecord(key, val)

\* The case of C12 that fails: the run over the Firm column of builders.csv
\* has standardized 'Acme Bank' and 'ACME BANK.' to one label and
\* 'Constructor Inc' and 'CONSTRUCTOR INC.' to the label 'constructor'; the
\* reduce finds the inherited property in place of the group of that name
\* and throws, and no group is shown.
C12_GroupOfInheritedName ==
    /\ Displayed
    /\ run.file = "builders.csv"
    /\ run.column = H_Firm
    /\ Len(normalizedResults) = 5
    /\ normalizedResults[1] = [InputFirmName |-> Str(R_AcmeBank),
                               StandardizedFirmName |-> Str(L_AcmeCorporation)]
    /\ normalizedResults[2] = [InputFirmName |-> Str(R_ACMEBANKdot),
                               StandardizedFirmName |-> Str(L_AcmeCorporation)]
    /\ normalizedResults[3] = [InputFirmName |-> Str(R_ConstructorInc),
                               StandardizedFirmName |-> Str(ConstructorKey)]
    /\ normalizedResults[4] = [InputFirmName |-> Str(R_CONSTRUCTORINCdot),
                               StandardizedFirmName |-> Str(ConstructorKey)]
    /\ GroupVariants(normalizedResults, ConstructorKey) = TypeError
    /\ ~resultsShown

\* C14: once displayResults has been called, every group of n variants shows
\* its first min(n, 100) variants in order and reports n - 100 more exactly
\* when n > 100, and normalizedResults holds the records it held before the
\* call: those the run pushed, one for each row of its file.
C14_DisplayCapping ==
    Displayed =>
        /\ normalizedResults = Standardization(run.file, run.column)
        /\ resultsShown
        /\ \A key \in RecordKeys : \E k \in 1..Len(resultsView) : resultsView[k].key = key
        /\ \A k \in 1..Len(resultsView) :
               LET variants == GroupVariants(Standardization(run.file, run.column),
                                             resultsView[k].key)
                   n == Len(variants)
               IN /\ resultsView[k].count = n
                  /\ resultsView[k].shown = SubSeq(variants, 1, Min(n, MaxShown))
                  /\ resultsView[k].more = (IF n > MaxShown THEN n - MaxShown ELSE 0)
                  /\ resultsView[k].more > 0 <=> n > MaxShown

\* The case of C14 that fails: the records of the run hold a group of two
\* variants and a record standardized to 'constructor'; displayResults
\* throws before it shows the variants of either, and leaves
\* normalizedResults as it was.
C14_VariantsNotShown ==
    /\ Displayed
    /\ normalizedResults = Standardization(run.file, run.column)
    /\ Len(GroupVariants(normalizedResults, L_AcmeCorporation)) = 2
    /\ \E i \in 1..Len(normalizedResults) :
           normalizedResults[i].StandardizedFirmName = Str(ConstructorKey)
    /\ ~resultsShown
    /\ resultsView = <<>>

(***************************************************************************)
(* C13: what the download exports                                          *)
(***************************************************************************)
\* C13: whenever the download handler has written a file, the file holds the
\* records of the batch now in parsedData, one per row in row order: never a
\* part of them, never the records of a file parsed before.
C13_ExportCompleteness ==
    exported.written
        => /\ Len(exported.rows) = Len(parsedRows)
           /\ exported = unparse(Standardization(parsedData, run.column))

\* The case of C13 that fails: results of a first run are on show, a second
\* run over the same batch has yielded after its first chunk, and the
\* download writes the records of that chunk only.
C13_PartialPrefixExported ==
    /\ exported.written
    /\ Loaded
    /\ resultsShown
    /\ run.state = "yielded"
    /\ run.file = parsedData
    /\ Len(exported.rows) = run.processedCount
    /\ run.processedCount < Len(parsedRows)

(***************************************************************************)
(* C15: the knowledge base after the load                                  *)
(***************************************************************************)
\* C15: once the load has succeeded, no step of the page changes
\* knowledgeBase (its variants mapping and allKnownVariants) or the fuse
\* index; a step that calls standardizeName (a chunk of a run) leaves
\* parsedData and headers as they were, and a chunk that continues a run
\* keeps the records normalizedResults already holds.
C15_FrozenKnowledgeBase ==
    [][Loaded =>
          /\ knowledgeBase' = knowledgeBase
          /\ fuse' = fuse
          /\ (run' # run \/ lastCall' # lastCall)
                 => /\ parsedData' = parsedData
                    /\ headers' = headers
          /\ (run.state = "yielded" /\ run' # run)
                 => /\ Len(normalizedResults') >= Len(normalizedResults)
                    /\ SubSeq(normalizedResults', 1, Len(normalizedResults))
                           = normalizedResults]_vars

\* With the knowledge base loaded, a file has been parsed, a run over it has
\* called standardizeName on every row and completed, its results are on
\* show, and the knowledge base is still the document that was fetched.
C15_LoadedAfterRun ==
    /\ Loaded
    /\ run.state = "completed"
    /\ lastCall.made
    /\ resultsShown
    /\ pendingParses # EmptyBag
    /\ knowledgeBase = kbSource.doc
    /\ fuse.docs = knowledgeBase.allKnownVariants

(***************************************************************************)
(* C16, C17: the chunks of a run                                           *)
(***************************************************************************)
\* C16: at most one run is in progress: while a call of processChunk is
\* scheduled the process button is disabled, and while the button is
\* disabled the only step that changes the run is the next chunk of that
\* same run (same batch, column and row count, processedCount not less),
\* which appends to the records normalizedResults holds; no second run
\* starts and empties or interleaves with them.
C16_SingleActiveRun ==
    /\ [](run.state = "yielded" => processButtonDisabled)
    /\ [][(processButtonDisabled /\ run' # run)
             => /\ run.state = "yielded"
                /\ run'.file = run.file
                /\ run'.column = run.column
                /\ run'.totalRows = run.totalRows
                /\ run'.processedCount >= run.processedCount
                /\ Len(normalizedResults') >= Len(normalizedResults)
                /\ SubSeq(normalizedResults', 1, Len(normalizedResults))
                       = normalizedResults]_vars

\* A run has yielded after its first chunk with the button disabled, while
\* the parse of another file has completed and a further parse is awaited.
C16_RunInProgress ==
    /\ run.state = "yielded"
    /\ processButtonDisabled
    /\ Len(normalizedResults) = chunkSize
    /\ parsedData # run.file
    /\ pendingParses # EmptyBag

\* C17: after every chunk of a run, a further chunk is scheduled if and only
\* if processedCount < totalRows; at every yield point normalizedResults
\* has processedCount records and 0 < processedCount <= totalRows; and
\* processedCount, advanced by min(1000, totalRows - processedCount) per
\* chunk, is a whole number of chunks or totalRows.
C17_RunProgress ==
    run.state # "none" =>
        /\ (run.state = "yielded") <=> (run.processedCount < run.totalRows)
        /\ run.state = "yielded"
               => /\ Len(normalizedResults) = run.processedCount
                  /\ 0 < run.processedCount
                  /\ run.processedCount <= run.totalRows
        /\ \/ run.processedCount % chunkSize = 0
           \/ run.processedCount = run.totalRows

\* The case of C17 that fails: the second chunk of a run threw after it had
\* pushed a record: processedCount was not advanced, normalizedResults
\* holds more than processedCount records, and no chunk is scheduled though
\* processedCount < totalRows.
C17_ChunkWithoutAdvance ==
    /\ Loaded
    /\ run.state = "aborted"
    /\ run.processedCount = chunkSize
    /\ run.processedCount < run.totalRows
    /\ Len(normalizedResults) > run.processedCount
    /\ processButtonDisabled

=============================================================================
